---- MODULE Spec2Model ----
(***************************************************************************)
(* A model of the goon event dispatch engine (src/goon-module.c): the      *)
(* FIFO event queue, the handler registry, the context lifecycle and the   *)
(* process_events driver.                                                  *)
(*                                                                         *)
(* Objects are addresses: events are 1..MaxEvents, handlers are            *)
(* 1..MaxHandlers, and NULL is 0.  The intrusive `next` links of events    *)
(* and handlers are modelled as the pointer fields they are.               *)
(*                                                                         *)
(* process_events is modelled step by step (one pop, one handler visit,    *)
(* one event completion per step) because every handler visit calls back   *)
(* into client code whose result, and whose calls into the context, are    *)
(* inputs.  No client operation is enabled while a pass is in progress     *)
(* except through a callback: the engine is single-threaded.               *)
(*                                                                         *)
(* SpecQueue is a goon_queue_t used on its own: the client creates events, *)
(* pushes and pops.  Spec is a context whose client has created            *)
(* MaxHandlers handlers and MaxCtxEvents events and then registers,        *)
(* toggles, emits, starts, pauses, stops and drives.  SpecLifecycle is the *)
(* same context with set_state in place of the handler toggles and the     *)
(* batch registration.                                                     *)
(***************************************************************************)
EXTENDS Integers, Sequences, FiniteSets, TLC

(* ------------------------------------------------------------------ *)
(* Bounds of the model                                                *)
(* ------------------------------------------------------------------ *)

\* Number of event objects.
MaxEvents == 3

\* Number of events the client of a context creates (SpecQueue's client may
\* create all MaxEvents).
MaxCtxEvents == 2

\* Number of handler objects the client may create.
MaxHandlers == 2

\* Number of cache slots.  It stands for GOON_CACHE_SIZE (64 in the source).
CacheSize == 2

\* Size of a name or key buffer.  It stands for GOON_MAX_NAME_LEN (128 in the
\* source): a buffer holds NameLen - 1 characters and the terminator.
NameLen == 2

\* Last value of the clock: enough to fill the cache at ascending times.
MaxTime == CacheSize

\* Number of pool slots.  It stands for GOON_POOL_SIZE (128 in the source).
PoolSize == 4

\* Capacity given to a queue.  It stands for GOON_MAX_QUEUE_SIZE (1024 in
\* the source), scaled down so that a full queue is within reach.
MaxQueueSize == 2

(* ------------------------------------------------------------------ *)
(* Program constants                                                  *)
(* ------------------------------------------------------------------ *)

NULL == 0

GOON_SUCCESS == 0
GOON_ERROR == -1
GOON_ERROR_NULL_PTR == -2
GOON_ERROR_NOT_FOUND == -5
GOON_ERROR_OVERFLOW == -6

GOON_STATE_IDLE == 0
GOON_STATE_INITIALIZING == 1
GOON_STATE_RUNNING == 2
GOON_STATE_PAUSED == 3
GOON_STATE_STOPPING == 4
GOON_STATE_ERROR == 5
GOON_STATE_TERMINATED == 6

GOON_PRIORITY_LOW == 0
GOON_PRIORITY_CRITICAL == 3

Priorities == GOON_PRIORITY_LOW .. GOON_PRIORITY_CRITICAL

States == GOON_STATE_IDLE .. GOON_STATE_TERMINATED

Events == 1 .. MaxEvents
Handlers == 1 .. MaxHandlers

\* The priority the client gives to the i-th event it creates: it rotates
\* through the priorities, as main does.
PriorityInput(i) == i % (GOON_PRIORITY_CRITICAL + 1)

\* The statuses a handler callback returns: success, a negative error kind
\* and a positive non-zero status.
ResultInputs == {GOON_SUCCESS, GOON_ERROR, 1}

(* ------------------------------------------------------------------ *)
(* State                                                              *)
(* ------------------------------------------------------------------ *)

VARIABLES
    \* goon_queue_t: [head, tail, size, max_size].  In Spec it is the
    \* context's event_queue; in SpecQueue it is a queue of its own.
    queue,
    enext,                   \* goon_event_t.next, per event
    epriority,               \* goon_event_t.priority, per event
    estatus,                 \* who owns each event object
    g_next_event_id,
    \* goon_context_t
    state,
    prev_state,              \* the state the last lifecycle call found
    handlers,                \* head of the handler list
    handler_count,
    event_count,
    total_events_processed,
    \* goon_handler_t, per handler
    hnext,
    henabled,
    call_count,
    error_count,
    hstatus,
    g_next_handler_id,
    hname,                   \* goon_handler_t.name, per handler
    \* goon_context_process_events: position, caller and locals
    pc,
    caller,
    event,
    handler,
    processed,
    result,
    \* what the last public operation returned
    ret,
    \* history
    pushed,                  \* events pushed with success, in order
    popped,                  \* events returned by pop, in order
    regs,                    \* handlers registered, in order
    emit_no,                 \* per queued event: event_count after its emit
    last_no,                 \* emit_no of the event the driver popped last
    log,                     \* handlers invoked on the event in dispatch
    pass,                    \* what the running pass started from
    \* goon_cache_t: keys, values, timestamps, count
    cache,
    \* the clock read by time(NULL)
    now,
    \* history of the cache
    evicted,                 \* the last cache operation was an evicting set
    \* goon_pool_t: objects, in_use, size, capacity
    pool,
    pseq,                    \* history: the last pool operations
    \* events with their fields, by address (serialization)
    evs,
    buffer,                  \* the caller's buffer
    src,                     \* history: the event the buffer was written from
    \* the singleton: the current context (NULL or its address), the
    \* context id counter, and goon_context_t.id of the context
    g_goon_ctx,
    g_next_context_id,
    ctx_id,
    \* goon_worker_t
    running,
    iterations

qvars == <<queue, enext, epriority, estatus, g_next_event_id, pushed, popped,
           emit_no>>
cvars == <<state, prev_state, handler_count, event_count,
          total_events_processed>>
hvars == <<handlers, hnext, henabled, call_count, error_count, hstatus,
           g_next_handler_id, hname, regs>>
pvars == <<pc, caller, event, handler, processed, result, log, pass,
           last_no>>
cachevars == <<cache, now, evicted>>
poolvars == <<pool, pseq>>
servars == <<evs, buffer, src>>
gvars == <<g_goon_ctx, g_next_context_id, ctx_id>>
wvars == <<running, iterations>>
xvars == <<cachevars, poolvars, servars, gvars, wvars>>
vars == <<qvars, cvars, hvars, pvars, ret, xvars>>

\* No state: the value of prev_state where the lifecycle calls are not
\* followed.
NoState == GOON_STATE_TERMINATED + 1

\* The state a lifecycle call found, s, kept where the calls are followed.
Track(s) == IF prev_state = NoState THEN NoState ELSE s

(* ------------------------------------------------------------------ *)
(* Queue                                                              *)
(* ------------------------------------------------------------------ *)

goon_queue_create(max_size) ==
    [head |-> NULL, tail |-> NULL, size |-> 0,
     max_size |-> IF max_size > 0 THEN max_size ELSE MaxQueueSize]

QueueFull_offByOne(q) == q.size > q.max_size

QueueFull(q) == q.size >= q.max_size

\* push at the head instead of the tail
QueueLink_lifo(q, nxt, e) ==
    [q |-> [q EXCEPT !.head = e,
                     !.tail = IF q.tail # NULL THEN q.tail ELSE e,
                     !.size = @ + 1],
     next |-> [nxt EXCEPT ![e] = q.head]]

\* The linking half of goon_queue_push: event->next = NULL, link after the
\* tail (or as the head of an empty queue), tail = event, size++.
QueueLink(q, nxt, e) ==
    LET n1 == [nxt EXCEPT ![e] = NULL]
    IN  [q |-> [q EXCEPT !.head = IF q.tail # NULL THEN q.head ELSE e,
                         !.tail = e,
                         !.size = @ + 1],
         next |-> IF q.tail # NULL THEN [n1 EXCEPT ![q.tail] = e] ELSE n1]

goon_queue_push(q, nxt, e) ==
    IF QueueFull(q)
    THEN [rc |-> GOON_ERROR_OVERFLOW, q |-> q, next |-> nxt]
    ELSE [rc |-> GOON_SUCCESS] @@ QueueLink(q, nxt, e)

\* pop that leaves the tail alone when the last event goes
goon_queue_pop_keepTail(q, nxt) ==
    IF q.head = NULL
    THEN [ev |-> NULL, q |-> q, next |-> nxt]
    ELSE LET e == q.head
         IN  [ev |-> e,
              q |-> [q EXCEPT !.head = nxt[e], !.size = @ - 1],
              next |-> [nxt EXCEPT ![e] = NULL]]

\* pop that counts the event out and leaves it linked at the head
goon_queue_pop_noUnlink(q, nxt) ==
    IF q.head = NULL
    THEN [ev |-> NULL, q |-> q, next |-> nxt]
    ELSE [ev |-> q.head, q |-> [q EXCEPT !.size = @ - 1], next |-> nxt]

goon_queue_pop(q, nxt) ==
    IF q.head = NULL
    THEN [ev |-> NULL, q |-> q, next |-> nxt]
    ELSE LET e == q.head
             hd == nxt[e]
         IN  [ev |-> e,
              q |-> [q EXCEPT !.head = hd,
                              !.tail = IF hd = NULL THEN NULL ELSE @,
                              !.size = @ - 1],
              next |-> [nxt EXCEPT ![e] = NULL]]

goon_queue_is_empty_lastLeft(q) == q.size <= 1

goon_queue_is_empty(q) == q.size = 0

\* The events linked from e on, in link order (NULL ends the walk).
RECURSIVE Chain(_, _, _)
Chain(nxt, e, fuel) ==
    IF e = NULL \/ fuel = 0 THEN <<>>
    ELSE <<e>> \o Chain(nxt, nxt[e], fuel - 1)

QueueContents == Chain(enext, queue.head, MaxEvents)

(* ------------------------------------------------------------------ *)
(* Initial states                                                     *)
(* ------------------------------------------------------------------ *)

\* No event created yet.
InitEvents ==
    /\ enext = [e \in Events |-> NULL]
    /\ epriority = [e \in Events |-> GOON_PRIORITY_LOW]
    /\ estatus = [e \in Events |-> "unborn"]
    /\ g_next_event_id = 1
    /\ pushed = <<>>
    /\ popped = <<>>
    /\ emit_no = [e \in Events |-> 0]

\* The client has called goon_event_create MaxCtxEvents times and owns the
\* events: ids 1..MaxCtxEvents, next = NULL, priorities rotating.
InitEventsCreated ==
    /\ enext = [e \in Events |-> NULL]
    /\ epriority = [e \in Events |->
                      IF e <= MaxCtxEvents THEN PriorityInput(e)
                      ELSE GOON_PRIORITY_LOW]
    /\ estatus = [e \in Events |->
                    IF e <= MaxCtxEvents THEN "client" ELSE "unborn"]
    /\ g_next_event_id = MaxCtxEvents + 1
    /\ pushed = <<>>
    /\ popped = <<>>
    /\ emit_no = [e \in Events |-> 0]

\* The client has called goon_handler_create MaxHandlers times: each handler
\* is enabled, its counters are 0 and its next is NULL; none is registered.
InitHandlers ==
    /\ handlers = NULL
    /\ hnext = [h \in Handlers |-> NULL]
    /\ henabled = [h \in Handlers |-> TRUE]
    /\ call_count = [h \in Handlers |-> 0]
    /\ error_count = [h \in Handlers |-> 0]
    /\ hstatus = [h \in Handlers |-> "created"]
    /\ g_next_handler_id = MaxHandlers + 1
    /\ hname = [h \in Handlers |-> h]
    /\ regs = <<>>

NoPass == [n |-> 0, total |-> 0, emits |-> 0,
           calls |-> [h \in Handlers |-> 0]]

InitProcess ==
    /\ pc = "idle"
    /\ caller = "none"
    /\ event = NULL
    /\ handler = NULL
    /\ processed = 0
    /\ result = GOON_SUCCESS
    /\ log = <<>>
    /\ pass = NoPass
    /\ last_no = 0
    /\ ret = GOON_SUCCESS

\* goon_context_create, called by the client: the first context of the
\* process, and no current context.
InitContext ==
    /\ state = GOON_STATE_IDLE
    /\ prev_state = NoState
    /\ handler_count = 0
    /\ event_count = 0
    /\ total_events_processed = 0
    /\ ctx_id = 1
    /\ g_next_context_id = 2
    /\ g_goon_ctx = NULL

\* goon_pool_create: no object allocated, every slot null and free.
goon_pool_create(capacity) ==
    [objects |-> [i \in 0 .. PoolSize - 1 |-> NULL],
     in_use |-> [i \in 0 .. PoolSize - 1 |-> FALSE],
     size |-> 0,
     capacity |-> IF capacity > 0 THEN capacity ELSE PoolSize]

\* The last pool operations: "acquired" (an acquire returned o), "released"
\* (and then o was released), "again" (and then an acquire returned o), or
\* none of these.
NoSeq == [st |-> "none", o |-> NULL]

\* goon_cache_create: every array zeroed, count = 0.  A key is the string
\* before the terminator, a sequence of characters.
goon_cache_create ==
    [keys |-> [i \in 0 .. CacheSize - 1 |-> <<>>],
     values |-> [i \in 0 .. CacheSize - 1 |-> NULL],
     sizes |-> [i \in 0 .. CacheSize - 1 |-> 0],
     timestamps |-> [i \in 0 .. CacheSize - 1 |-> 0],
     count |-> 0]

\* No event object (a free address).
NoEvent == [id |-> 0, name |-> <<>>, priority |-> 0, timestamp |-> 0,
            live |-> FALSE]

\* No event with fields exists and the buffer is empty.
InitSerial ==
    /\ evs = [e \in Events |-> NoEvent]
    /\ buffer = <<>>
    /\ src = NULL

\* goon_worker_create: the worker of the context, not running, no tick yet.
InitWorker ==
    /\ running = FALSE
    /\ iterations = 0

\* The parts of the context that the queue and the driver do not touch.
InitExtras ==
    /\ InitWorker
    /\ cache = goon_cache_create
    /\ now = 1
    /\ evicted = FALSE
    /\ pool = goon_pool_create(PoolSize)
    /\ pseq = NoSeq
    /\ InitSerial

Init ==
    /\ queue = goon_queue_create(MaxQueueSize)
    /\ InitEventsCreated
    /\ InitHandlers
    /\ InitContext
    /\ InitProcess
    /\ InitExtras

(* ------------------------------------------------------------------ *)
(* Events                                                             *)
(* ------------------------------------------------------------------ *)

goon_event_create ==
    /\ pc = "idle"
    /\ g_next_event_id <= MaxEvents
    /\ LET e == g_next_event_id
       IN  /\ enext' = [enext EXCEPT ![e] = NULL]
           /\ epriority' = [epriority EXCEPT ![e] = PriorityInput(e)]
           /\ estatus' = [estatus EXCEPT ![e] = "client"]
           /\ ret' = e
    /\ g_next_event_id' = g_next_event_id + 1
    /\ UNCHANGED <<queue, pushed, popped, emit_no, cvars, hvars, pvars>>
    /\ UNCHANGED xvars

\* goon_queue_push on the queue, called by the client with an event it owns
QueuePush(e) ==
    /\ pc = "idle"
    /\ estatus[e] = "client"
    /\ LET r == goon_queue_push(queue, enext, e)
       IN  /\ queue' = r.q
           /\ enext' = r.next
           /\ ret' = r.rc
           /\ pushed' = IF r.rc = GOON_SUCCESS THEN Append(pushed, e) ELSE pushed
           /\ estatus' = IF r.rc = GOON_SUCCESS
                         THEN [estatus EXCEPT ![e] = "queued"] ELSE estatus
    /\ UNCHANGED <<epriority, g_next_event_id, popped, emit_no, cvars, hvars,
                   pvars>>
    /\ UNCHANGED xvars

\* goon_queue_pop on the queue, called by the client, who then owns the event
QueuePop ==
    /\ pc = "idle"
    /\ LET r == goon_queue_pop(queue, enext)
       IN  /\ queue' = r.q
           /\ enext' = r.next
           /\ ret' = r.ev
           /\ popped' = IF r.ev # NULL THEN Append(popped, r.ev) ELSE popped
           /\ estatus' = IF r.ev # NULL
                         THEN [estatus EXCEPT ![r.ev] = "popped"] ELSE estatus
    /\ UNCHANGED <<epriority, g_next_event_id, pushed, emit_no, cvars, hvars,
                   pvars>>
    /\ UNCHANGED xvars

\* A queue created by goon_queue_create(m) for some m, 0 included.
InitQueue ==
    /\ \E m \in 0 .. MaxQueueSize : queue = goon_queue_create(m)
    /\ InitEvents
    /\ InitHandlers
    /\ InitContext
    /\ InitProcess
    /\ InitExtras

NextQueue ==
    \/ goon_event_create
    \/ \E e \in Events : QueuePush(e)
    \/ QueuePop

SpecQueue == InitQueue /\ [][NextQueue]_vars

(* ------------------------------------------------------------------ *)
(* Claims about the queue (checked under SpecQueue)                   *)
(* ------------------------------------------------------------------ *)

\* C3: queue FIFO.  Pushing distinct events, interleaved with pops: the
\* events pop has returned so far are, in order, the first events that were
\* pushed with success, the queue holds the rest in push order, and a pop on
\* an empty queue returns null and pops nothing.
C3_QueueFifo ==
    /\ [](/\ Len(popped) <= Len(pushed)
          /\ popped = SubSeq(pushed, 1, Len(popped))
          /\ QueueContents = SubSeq(pushed, Len(popped) + 1, Len(pushed)))
    /\ [][QueuePop =>
            IF Len(popped) = Len(pushed)
            THEN ret' = NULL /\ popped' = popped
            ELSE ret' = pushed[Len(popped) + 1]]_vars

\* Events pushed in an order that is not their creation order, popped in
\* the push order, and a further pop on the then empty queue returned null.
C3_Witness ==
    /\ pushed = <<2, 1>>
    /\ popped = <<2, 1>>
    /\ queue.size = 0
    /\ ret = NULL

\* C4: queue admission.  A push on a queue that holds max_size events
\* returns Overflow and changes neither size, head, tail nor any link, so
\* the queued events stay in their order.
C4_QueueAdmission ==
    [][((\E e \in Events : QueuePush(e)) /\ queue.size = queue.max_size)
       => /\ ret' = GOON_ERROR_OVERFLOW
          /\ queue' = queue
          /\ enext' = enext
          /\ QueueContents' = QueueContents]_vars

\* Scenario S3: max_size 2, the third push returned Overflow, the first two
\* events are still queued in their order.
C4_Witness ==
    /\ ret = GOON_ERROR_OVERFLOW
    /\ queue.max_size = 2
    /\ queue.size = 2
    /\ QueueContents = <<1, 2>>
    /\ pushed = <<1, 2>>
    /\ estatus[3] = "client"

(* ------------------------------------------------------------------ *)
(* Handlers and the registry                                          *)
(* ------------------------------------------------------------------ *)

\* handler->enabled = true / false.  The client toggles handlers it has
\* registered: the flag of a handler outside the list is read by nobody, and
\* registering does not touch it.
goon_handler_enable(h) ==
    /\ pc = "idle"
    /\ hstatus[h] = "registered"
    /\ henabled' = [henabled EXCEPT ![h] = TRUE]
    /\ ret' = GOON_SUCCESS
    /\ UNCHANGED <<qvars, cvars, handlers, hnext, call_count, error_count,
                   hstatus, g_next_handler_id, hname, regs, pvars>>
    /\ UNCHANGED xvars

goon_handler_disable(h) ==
    /\ pc = "idle"
    /\ hstatus[h] = "registered"
    /\ henabled' = [henabled EXCEPT ![h] = FALSE]
    /\ ret' = GOON_SUCCESS
    /\ UNCHANGED <<qvars, cvars, handlers, hnext, call_count, error_count,
                   hstatus, g_next_handler_id, hname, regs, pvars>>
    /\ UNCHANGED xvars

\* link at the tail of the list instead of the head
RegisterLink_tail(r, h) ==
    LET c == Chain(r.next, r.head, MaxHandlers)
        n == [r.next EXCEPT ![h] = NULL]
    IN  [head |-> IF c = <<>> THEN h ELSE r.head,
         next |-> IF c = <<>> THEN n ELSE [n EXCEPT ![c[Len(c)]] = h],
         count |-> r.count + 1,
         order |-> Append(r.order, h)]

\* The registry is [head, next, count] (ctx->handlers, the handlers' next
\* fields, ctx->handler_count); order is the history of registrations.
\* goon_context_register_handler: handler->next = ctx->handlers;
\* ctx->handlers = handler; ctx->handler_count++.
RegisterLink(r, h) ==
    [head |-> h,
     next |-> [r.next EXCEPT ![h] = r.head],
     count |-> r.count + 1,
     order |-> Append(r.order, h)]

Registry == [head |-> handlers, next |-> hnext, count |-> handler_count,
             order |-> regs]

\* goon_context_register_batch folds register_handler over the array,
\* skipping null entries.
RECURSIVE RegisterAll(_, _)
RegisterAll(r, hs) ==
    IF hs = <<>> THEN r
    ELSE RegisterAll(IF hs[1] # NULL THEN RegisterLink(r, hs[1]) ELSE r,
                     Tail(hs))

SetRegistry(r, hs) ==
    /\ handlers' = r.head
    /\ hnext' = r.next
    /\ handler_count' = r.count
    /\ regs' = r.order
    /\ hstatus' = [h \in Handlers |->
                     IF \E i \in DOMAIN hs : hs[i] = h
                     THEN "registered" ELSE hstatus[h]]

\* The client registers a handler it created and has not registered yet.
goon_context_register_handler(h) ==
    /\ pc = "idle"
    /\ hstatus[h] = "created"
    /\ SetRegistry(RegisterLink(Registry, h), <<h>>)
    /\ ret' = GOON_SUCCESS
    /\ UNCHANGED <<qvars, state, prev_state, event_count, total_events_processed,
                   henabled, call_count, error_count, g_next_handler_id, hname,
                   pvars>>
    /\ UNCHANGED xvars

\* The arrays the client passes to register_batch: two entries, each null
\* or a handler it created and has not registered yet, no handler twice.
BatchInputs ==
    {hs \in [1 .. 2 -> {NULL} \cup Handlers] :
        /\ \A i \in 1 .. 2 : hs[i] # NULL => hstatus[hs[i]] = "created"
        /\ hs[1] # NULL => hs[1] # hs[2]}

goon_context_register_batch(hs) ==
    /\ pc = "idle"
    /\ SetRegistry(RegisterAll(Registry, hs), hs)
    /\ ret' = Cardinality({i \in 1 .. 2 : hs[i] # NULL})
    /\ UNCHANGED <<qvars, state, prev_state, event_count, total_events_processed,
                   henabled, call_count, error_count, g_next_handler_id, hname,
                   pvars>>
    /\ UNCHANGED xvars

\* The handlers linked from the head, in list order.
HandlerList == Chain(hnext, handlers, MaxHandlers)

(* ------------------------------------------------------------------ *)
(* Context lifecycle                                                  *)
(* ------------------------------------------------------------------ *)

SetState_final(s) ==
    /\ state' = IF state = GOON_STATE_TERMINATED THEN state ELSE s
    /\ prev_state' = Track(state)
    /\ UNCHANGED <<qvars, handler_count, event_count, total_events_processed,
                   hvars, pvars>>

\* ctx->state = state, as goon_context_set_state does for its callers.
SetState(s) ==
    /\ state' = s
    /\ prev_state' = Track(state)
    /\ UNCHANGED <<qvars, handler_count, event_count, total_events_processed,
                   hvars, pvars>>

goon_context_set_state(s) ==
    /\ pc = "idle"
    /\ SetState(s)
    /\ ret' = GOON_SUCCESS
    /\ UNCHANGED xvars

goon_start ==
    /\ pc = "idle"
    /\ SetState(GOON_STATE_RUNNING)
    /\ ret' = GOON_SUCCESS
    /\ UNCHANGED xvars

goon_pause ==
    /\ pc = "idle"
    /\ SetState(GOON_STATE_PAUSED)
    /\ ret' = GOON_SUCCESS
    /\ UNCHANGED xvars

goon_resume ==
    /\ pc = "idle"
    /\ SetState(GOON_STATE_RUNNING)
    /\ ret' = GOON_SUCCESS
    /\ UNCHANGED xvars

(* ------------------------------------------------------------------ *)
(* Emit and the driver                                                *)
(* ------------------------------------------------------------------ *)

EmitEvent_countAll(q, nxt, count, e) ==
    LET r == goon_queue_push(q, nxt, e)
    IN  [rc |-> r.rc, q |-> r.q, next |-> r.next, count |-> count + 1]

\* goon_context_emit_event on the queue q with links nxt and the context's
\* event_count: push, and count the event when the push succeeded.
EmitEvent(q, nxt, count, e) ==
    LET r == goon_queue_push(q, nxt, e)
    IN  [rc |-> r.rc, q |-> r.q, next |-> r.next,
         count |-> IF r.rc = GOON_SUCCESS THEN count + 1 ELSE count]

\* What an emit of e (or no emit, when e is NULL) does to the queue state.
ApplyEmit(e) ==
    LET r == EmitEvent(queue, enext, event_count, e)
    IN  IF e = NULL
        THEN UNCHANGED <<queue, enext, event_count, emit_no, estatus>>
        ELSE /\ queue' = r.q
             /\ enext' = r.next
             /\ event_count' = r.count
             /\ emit_no' = IF r.rc = GOON_SUCCESS
                           THEN [emit_no EXCEPT ![e] = r.count] ELSE emit_no
             /\ estatus' = [estatus EXCEPT ![e] =
                             IF r.rc = GOON_SUCCESS THEN "queued"
                             ELSE "rejected"]

\* The events the client owns: created and never emitted ("client"), or
\* handed back by an emit that failed ("rejected").
Owned(e) == estatus[e] \in {"client", "rejected"}

\* The client emits an event it owns.
goon_context_emit_event(e) ==
    /\ pc = "idle"
    /\ Owned(e)
    /\ ApplyEmit(e)
    /\ ret' = EmitEvent(queue, enext, event_count, e).rc
    /\ UNCHANGED <<epriority, g_next_event_id, pushed, popped, state, prev_state,
                   handler_count, total_events_processed, hvars, pvars>>
    /\ UNCHANGED xvars

ProcessRefuses_pausedOnly(s) == s = GOON_STATE_PAUSED

\* if (ctx->state != GOON_STATE_RUNNING) return GOON_ERROR;
ProcessRefuses(s) == s # GOON_STATE_RUNNING

\* The start of the drain loop, entered from `who`: processed = 0.
StartPass(who) ==
    /\ pc' = "loop"
    /\ caller' = who
    /\ processed' = 0
    /\ pass' = [n |-> queue.size, total |-> total_events_processed,
                emits |-> 0, calls |-> call_count]
    /\ ret' = NULL
    /\ UNCHANGED <<qvars, handler_count, event_count, total_events_processed,
                   hvars, event, handler, result, log, last_no>>

goon_context_process_events ==
    /\ pc = "idle"
    /\ IF ProcessRefuses(state)
       THEN /\ ret' = GOON_ERROR
            /\ UNCHANGED <<qvars, cvars, hvars, pvars>>
       ELSE /\ StartPass("process_events")
            /\ UNCHANGED <<state, prev_state>>
    /\ UNCHANGED xvars

\* goon_stop: set_state(STOPPING); process_events(ctx), its result ignored;
\* set_state(TERMINATED); return GOON_SUCCESS.
StopContext ==
    IF ProcessRefuses(GOON_STATE_STOPPING)
    THEN /\ state' = GOON_STATE_TERMINATED
         /\ prev_state' = Track(state)
         /\ ret' = GOON_SUCCESS
         /\ UNCHANGED <<qvars, handler_count, event_count,
                        total_events_processed, hvars, pvars>>
    ELSE /\ StartPass("goon_stop")
         /\ state' = GOON_STATE_STOPPING
         /\ prev_state' = Track(state)

goon_stop ==
    /\ pc = "idle"
    /\ StopContext
    /\ UNCHANGED xvars

ProcessReturn_total(p) == total_events_processed

\* return processed;
ProcessReturn(p) == p

\* One turn of while (!goon_queue_is_empty(queue)): pop the next event and
\* start at the head of the handler list, or leave the loop and return to
\* the caller (goon_stop then sets TERMINATED and returns GOON_SUCCESS;
\* goon_worker_tick then counts the iteration and returns processed).
ProcessLoop ==
    /\ pc = "loop"
    /\ LET r == goon_queue_pop(queue, enext)
       IN  IF goon_queue_is_empty(queue) \/ r.ev = NULL
           THEN /\ pc' = "idle"
                /\ caller' = "none"
                /\ IF caller = "goon_stop"
                   THEN /\ state' = GOON_STATE_TERMINATED
                        /\ ret' = GOON_SUCCESS
                   ELSE /\ state' = state
                        /\ ret' = ProcessReturn(processed)
                /\ prev_state' = prev_state
                /\ iterations' = IF caller = "goon_worker_tick"
                                 THEN iterations + 1 ELSE iterations
                /\ processed' = 0
                /\ pass' = NoPass
                /\ UNCHANGED <<qvars, event, handler, log, last_no>>
           ELSE /\ queue' = r.q
                /\ enext' = r.next
                /\ last_no' = emit_no[r.ev]
                /\ estatus' = [estatus EXCEPT ![r.ev] = "dispatch"]
                /\ event' = r.ev
                /\ handler' = handlers
                /\ pc' = "dispatch"
                /\ pass' = [pass EXCEPT !.calls = call_count]
                /\ log' = <<>>
                /\ UNCHANGED <<epriority, g_next_event_id, pushed, popped,
                               emit_no, state, prev_state, caller, processed,
                               ret, iterations>>
    /\ UNCHANGED <<handler_count, event_count, total_events_processed, hvars,
                   result>>
    /\ UNCHANGED <<cachevars, poolvars, servars, gvars, running>>

ShouldInvoke_always(h) == TRUE

ShouldInvoke_disabled(h) == ~henabled[h]

\* if (handler->enabled)
ShouldInvoke(h) == henabled[h]

ResultIsError_negative(r) == r < 0

\* if (result != GOON_SUCCESS)
ResultIsError(r) == r # GOON_SUCCESS

\* leave the handler loop on an error status
VisitNext_stopOnError(h, r) == IF r # GOON_SUCCESS THEN NULL ELSE hnext[h]

\* handler = handler->next, whatever status r the callback returned
VisitNext(h, r) == hnext[h]

\* One turn of while (handler): an enabled handler's callback runs on the
\* event, returns r and may have emitted an event em it owned; the driver
\* then counts the call, and the error when r says so.
ProcessVisit ==
    /\ pc = "dispatch"
    /\ handler # NULL
    /\ IF ShouldInvoke(handler)
       THEN \E r \in ResultInputs :
            \E em \in {NULL} \cup {e \in Events : Owned(e)} :
               /\ ApplyEmit(em)
               /\ pass' = [pass EXCEPT !.emits =
                             IF em # NULL /\ ~QueueFull(queue)
                             THEN @ + 1 ELSE @]
               /\ result' = r
               /\ call_count' = [call_count EXCEPT ![handler] = @ + 1]
               /\ error_count' = [error_count EXCEPT ![handler] =
                                    IF ResultIsError(r) THEN @ + 1 ELSE @]
               /\ log' = Append(log, handler)
               /\ handler' = VisitNext(handler, r)
       ELSE /\ handler' = VisitNext(handler, GOON_SUCCESS)
            /\ UNCHANGED <<queue, enext, event_count, emit_no, estatus, pass,
                           result, call_count, error_count, log>>
    /\ UNCHANGED <<epriority, g_next_event_id, pushed, popped, state, prev_state,
                   handler_count, total_events_processed, handlers, hnext,
                   henabled, hstatus, g_next_handler_id, hname, regs, pc, caller,
                   event, processed, ret, last_no>>
    /\ UNCHANGED xvars

\* After the last handler: goon_event_destroy(event); processed++;
\* ctx->total_events_processed++.
ProcessDone ==
    /\ pc = "dispatch"
    /\ handler = NULL
    /\ estatus' = [estatus EXCEPT ![event] = "destroyed"]
    /\ emit_no' = [emit_no EXCEPT ![event] = 0]
    /\ log' = <<>>
    /\ processed' = processed + 1
    /\ total_events_processed' = total_events_processed + 1
    /\ pc' = "loop"
    /\ event' = NULL
    /\ result' = GOON_SUCCESS
    /\ UNCHANGED <<queue, enext, epriority, g_next_event_id, pushed, popped,
                   state, prev_state, handler_count, event_count, hvars, caller, handler,
                   pass, ret, last_no>>
    /\ UNCHANGED xvars

Next ==
    \/ \E h \in Handlers : goon_handler_enable(h)
    \/ \E h \in Handlers : goon_handler_disable(h)
    \/ \E h \in Handlers : goon_context_register_handler(h)
    \/ \E hs \in BatchInputs : goon_context_register_batch(hs)
    \/ goon_start
    \/ goon_pause
    \/ goon_resume
    \/ goon_stop
    \/ \E e \in Events : goon_context_emit_event(e)
    \/ goon_context_process_events
    \/ ProcessLoop
    \/ ProcessVisit
    \/ ProcessDone

Spec == Init /\ [][Next]_vars

NextLifecycle ==
    \/ \E s \in States : goon_context_set_state(s)
    \/ goon_start
    \/ goon_pause
    \/ goon_resume
    \/ goon_stop
    \/ \E h \in Handlers : goon_context_register_handler(h)
    \/ \E e \in Events : goon_context_emit_event(e)
    \/ goon_context_process_events
    \/ ProcessLoop
    \/ ProcessVisit
    \/ ProcessDone

SpecLifecycle == Init /\ [][NextLifecycle]_vars

(* ------------------------------------------------------------------ *)
(* Claims about the lifecycle (checked under SpecLifecycle)           *)
(* ------------------------------------------------------------------ *)

\* C1: process_events on a context in any state other than Running returns
\* Error, starts no dispatch (no handler is invoked) and leaves the queue,
\* its links and size, every handler's call_count and error_count and
\* total_events_processed unchanged.
C1_ProcessNotRunning ==
    [][(goon_context_process_events /\ state # GOON_STATE_RUNNING)
       => /\ ret' = GOON_ERROR
          /\ pc' = "idle"
          /\ log' = log
          /\ queue' = queue
          /\ enext' = enext
          /\ QueueContents' = QueueContents
          /\ call_count' = call_count
          /\ error_count' = error_count
          /\ total_events_processed' = total_events_processed
          /\ state' = state]_vars

\* Scenario S6: a paused context with a registered handler and one emitted
\* event; process_events returned Error, the event is still queued and the
\* handler was never called.
C1_Witness ==
    /\ ret = GOON_ERROR
    /\ state = GOON_STATE_PAUSED
    /\ regs = <<1>>
    /\ QueueContents = <<1>>
    /\ queue.size = 1
    /\ call_count[1] = 0
    /\ total_events_processed = 0

\* C2: stop drains the queue.  When stop, called on a Running context,
\* makes the state Terminated, the queue is empty and every event that was
\* pending has been processed.
C2_StopDrains ==
    [][(/\ (goon_stop /\ state = GOON_STATE_RUNNING)
           \/ (ProcessLoop /\ caller = "goon_stop")
        /\ state' = GOON_STATE_TERMINATED)
       => /\ queue'.size = 0
          /\ \A e \in Events : estatus[e] = "queued" => estatus'[e] = "destroyed"]_vars

(* ------------------------------------------------------------------ *)
(* Claims about the driver (checked under Spec)                       *)
(* ------------------------------------------------------------------ *)

Reverse(s) == [i \in 1 .. Len(s) |-> s[Len(s) + 1 - i]]

IsEnabled(h) == henabled[h]

EnabledOnly(s) == SelectSeq(s, IsEnabled)

IsPrefix(s, t) == Len(s) <= Len(t) /\ s = SubSeq(t, 1, Len(s))

Range(s) == {s[i] : i \in DOMAIN s}

\* C5: the handlers registered (singly or in a batch) in the order
\* h1, ..., hn are listed hn, ..., h1, and the driver invokes the enabled
\* ones on each event in that order: what it has invoked so far on the
\* event in dispatch is a prefix of the reversed registration order
\* restricted to the enabled handlers, and all of it at the end of the list.
C5_HandlerOrder ==
    /\ HandlerList = Reverse(regs)
    /\ pc = "dispatch" =>
          /\ IsPrefix(log, EnabledOnly(Reverse(regs)))
          /\ handler = NULL => log = EnabledOnly(Reverse(regs))

\* Handlers 1 and 2 registered in that order, both enabled, and the event in
\* dispatch has been handed to 2 and then to 1.
C5_Witness ==
    /\ pc = "dispatch"
    /\ handler = NULL
    /\ regs = <<1, 2>>
    /\ log = <<2, 1>>

\* C6: events are dispatched in the order of their successful emits,
\* whatever their priorities: the event the driver pops was emitted after
\* the event it popped before and before every event still queued (a
\* dispatch ends before the next pop, so the handler invocations on the
\* earlier event all precede those on the later one).
C6_DispatchFifo ==
    [][(ProcessLoop /\ pc' = "dispatch")
       => /\ emit_no[event'] > last_no
          /\ \A e \in Events :
                estatus'[e] = "queued" => emit_no[e] > emit_no[event']]_vars

\* Event 1 was emitted before event 2, which has the higher priority, and
\* handlers run on event 1 while event 2 waits.
C6_Witness ==
    /\ pc = "dispatch"
    /\ event = 1
    /\ log # <<>>
    /\ estatus[2] = "queued"
    /\ emit_no[1] < emit_no[2]
    /\ epriority[1] < epriority[2]

\* C7 as stated: when the driver is through with an event, every registered
\* handler's call_count is one more than when the event was popped.
C7_EveryRegisteredCalled ==
    (pc = "dispatch" /\ handler = NULL)
    => \A h \in Handlers :
          hstatus[h] = "registered" => call_count[h] = pass.calls[h] + 1

\* C7 amended: when the driver is through with an event, the call_count of
\* every registered handler that is enabled is one more than when the event
\* was popped, and the call_count of every other handler (disabled, or not
\* registered) is what it was.
C7_EnabledCalledOnce ==
    (pc = "dispatch" /\ handler = NULL)
    => \A h \in Handlers :
          call_count[h] = pass.calls[h]
                          + (IF hstatus[h] = "registered" /\ henabled[h]
                             THEN 1 ELSE 0)

\* Two registered handlers, 1 enabled and 2 disabled; the driver is through
\* with the second event: handler 1 has been called twice and 2 never.
C7_Witness ==
    /\ pc = "dispatch"
    /\ handler = NULL
    /\ processed = 1
    /\ regs = <<1, 2>>
    /\ henabled[1]
    /\ ~henabled[2]
    /\ call_count[1] = 2
    /\ call_count[2] = 0

\* C8: an invocation raises the invoked handler's error_count by one when
\* the callback returned a status other than 0 and leaves it alone when the
\* callback returned 0; no other handler's error_count changes, and no step
\* other than an invocation changes any error_count.
C8_ErrorCount ==
    [][IF Len(log') = Len(log) + 1
       THEN /\ error_count'[handler] =
                  error_count[handler] + (IF result' # 0 THEN 1 ELSE 0)
            /\ \A h \in Handlers \ {handler} :
                  error_count'[h] = error_count[h]
       ELSE error_count' = error_count]_vars

\* Handler 1 has been invoked twice; its callback returned 0 once and the
\* positive status 1 just now, which was counted as an error.
C8_Witness ==
    /\ pc = "dispatch"
    /\ log = <<1>>
    /\ result = 1
    /\ call_count[1] = 2
    /\ error_count[1] = 1

\* C9: a status other than success never cuts a pass short: at the end of
\* the handler list every enabled handler of the list has been invoked on
\* the event, whatever the callbacks returned, and the pass returns only
\* when the queue is empty.
C9_NoShortCircuit ==
    /\ []((pc = "dispatch" /\ handler = NULL)
          => \A h \in Range(HandlerList) : henabled[h] => h \in Range(log))
    /\ [][(ProcessLoop /\ pc' = "idle") => queue.size = 0]_vars

\* Handler 2, first in the list, returned an error on both events of a
\* pass; handler 1 was still invoked on both and the second event was still
\* processed.
C9_Witness ==
    /\ pc = "dispatch"
    /\ handler = NULL
    /\ processed = 1
    /\ HandlerList = <<2, 1>>
    /\ log = <<2, 1>>
    /\ error_count[2] = 2
    /\ call_count[1] = 2

\* C10: a pass of process_events on a Running context whose queue holds n
\* events, during which no callback emits, returns n, leaves the queue
\* empty and has raised total_events_processed by n.
C10_ProcessReturnsCount ==
    [][(ProcessLoop /\ pc' = "idle" /\ caller = "process_events"
                    /\ pass.emits = 0)
       => /\ ret' = pass.n
          /\ queue'.size = 0
          /\ QueueContents' = <<>>
          /\ total_events_processed' = pass.total + pass.n]_vars

\* One registered handler, two events emitted, and process_events has
\* returned 2: the handler was called twice, the queue is empty and
\* total_events_processed is 2.
C10_Witness ==
    /\ pc = "idle"
    /\ state = GOON_STATE_RUNNING
    /\ ret = 2
    /\ regs = <<1>>
    /\ call_count[1] = 2
    /\ queue.size = 0
    /\ total_events_processed = 2
    /\ event_count = 2

(* ------------------------------------------------------------------ *)
(* Recency cache (SpecCache)                                          *)
(* ------------------------------------------------------------------ *)

\* Characters are numbers; the keys differ in their first character, and
\* there is one more of them than the cache has slots.
KeyChars == 1 .. CacheSize + 1

\* The keys a client passes: a character followed by zeros, as long as a
\* key buffer holds (NameLen - 1 characters), and one key that is one
\* character longer.
KeyInputs ==
    {<<ch>> \o [i \in 1 .. NameLen - 2 |-> 0] : ch \in KeyChars}
       \cup {<<1>> \o [i \in 1 .. NameLen - 1 |-> 0]}

\* The contents of a value buffer (NULL is no buffer).
ValueInputs == {1, 2}

\* The size the client passes with a value: the two values differ in size.
SizeInput(value) == value + 1

\* strncpy(dst, key, GOON_MAX_NAME_LEN - 1); dst[GOON_MAX_NAME_LEN - 1] = 0
CopyKey(key) ==
    IF Len(key) <= NameLen - 1 THEN key ELSE SubSeq(key, 1, NameLen - 1)

\* for (i = 0; i < count; i++) if (strcmp(keys[i], key) == 0): the first
\* such index, or count when there is none.
RECURSIVE CacheFind(_, _, _)
CacheFind(c, key, i) ==
    IF i >= c.count THEN c.count
    ELSE IF c.keys[i] = key THEN i
    ELSE CacheFind(c, key, i + 1)

\* if (cache->timestamps[i] < oldest_time)
CacheOlder(t, oldest_time) == t < oldest_time

\* The scan for the oldest entry, from index i on with the oldest so far.
RECURSIVE CacheOldest(_, _, _)
CacheOldest(c, i, oldest_idx) ==
    IF i >= CacheSize THEN oldest_idx
    ELSE CacheOldest(c, i + 1,
                     IF CacheOlder(c.timestamps[i], c.timestamps[oldest_idx])
                     THEN i ELSE oldest_idx)

CacheStore(c, i, key, value, size, t) ==
    [c EXCEPT !.keys[i] = key, !.values[i] = value, !.sizes[i] = size,
              !.timestamps[i] = t]

\* set that looks whether the cache is full before it looks for the key
goon_cache_set_fullFirst(c, key, value, size, t) ==
    LET i == CacheFind(c, key, 0)
        oldest_idx == CacheOldest(c, 1, 0)
    IN  IF c.count >= CacheSize
        THEN [did |-> "evict",
              c |-> CacheStore(c, oldest_idx, CopyKey(key), value, size, t)]
        ELSE IF i < c.count
        THEN [did |-> "update",
              c |-> CacheStore(c, i, c.keys[i], value, size, t)]
        ELSE [did |-> "append",
              c |-> [CacheStore(c, c.count, CopyKey(key), value, size, t)
                       EXCEPT !.count = @ + 1]]

\* goon_cache_set at time t (allocation succeeds): what it did and the cache
goon_cache_set(c, key, value, size, t) ==
    LET i == CacheFind(c, key, 0)
        oldest_idx == CacheOldest(c, 1, 0)
    IN  IF i < c.count
        THEN [did |-> "update",
              c |-> CacheStore(c, i, c.keys[i], value, size, t)]
        ELSE IF c.count >= CacheSize
        THEN [did |-> "evict",
              c |-> CacheStore(c, oldest_idx, CopyKey(key), value, size, t)]
        ELSE [did |-> "append",
              c |-> [CacheStore(c, c.count, CopyKey(key), value, size, t)
                       EXCEPT !.count = @ + 1]]

GetStamp_keep(old, t) == old

\* cache->timestamps[i] = time(NULL)
GetStamp(old, t) == t

goon_cache_get(c, key, t) ==
    LET i == CacheFind(c, key, 0)
    IN  IF i < c.count
        THEN [value |-> c.values[i], size |-> c.sizes[i],
              c |-> [c EXCEPT !.timestamps[i] = GetStamp(@, t)]]
        ELSE [value |-> NULL, size |-> 0, c |-> c]

\* shift that moves keys, values and timestamps and leaves the sizes
RECURSIVE CacheShift_noSizes(_, _)
CacheShift_noSizes(c, j) ==
    IF j >= c.count - 1 THEN c
    ELSE CacheShift_noSizes([c EXCEPT !.keys[j] = c.keys[j + 1],
                                      !.values[j] = c.values[j + 1],
                                      !.timestamps[j] = c.timestamps[j + 1]],
                            j + 1)

\* The entries from i on moved one slot down: for (j = i; j < count - 1; j++)
RECURSIVE CacheShift(_, _)
CacheShift(c, j) ==
    IF j >= c.count - 1 THEN c
    ELSE CacheShift([c EXCEPT !.keys[j] = c.keys[j + 1],
                              !.values[j] = c.values[j + 1],
                              !.sizes[j] = c.sizes[j + 1],
                              !.timestamps[j] = c.timestamps[j + 1]], j + 1)

goon_cache_remove(c, key) ==
    LET i == CacheFind(c, key, 0)
    IN  IF i < c.count
        THEN [rc |-> GOON_SUCCESS,
              c |-> [CacheShift(c, i) EXCEPT !.count = @ - 1]]
        ELSE [rc |-> GOON_ERROR_NOT_FOUND, c |-> c]

goon_cache_clear(c) ==
    [c EXCEPT !.values = [i \in 0 .. CacheSize - 1 |->
                            IF i < c.count THEN NULL ELSE c.values[i]],
              !.count = 0]

\* time(NULL) moves on between two operations
Tick ==
    /\ now < MaxTime
    /\ now' = now + 1
    /\ UNCHANGED <<qvars, cvars, hvars, pvars, ret, cache, evicted, poolvars,
                   servars, gvars, wvars>>

CacheSet(key, value) ==
    /\ LET r == goon_cache_set(cache, key, value, SizeInput(value), now)
       IN  /\ cache' = r.c
           /\ evicted' = (r.did = "evict")
    /\ ret' = GOON_SUCCESS
    /\ UNCHANGED <<qvars, cvars, hvars, pvars, now, poolvars, servars,
                   gvars, wvars>>

CacheGet(key) ==
    /\ LET r == goon_cache_get(cache, key, now)
       IN  /\ cache' = r.c
           /\ ret' = r.value
           /\ evicted' = FALSE
    /\ UNCHANGED <<qvars, cvars, hvars, pvars, now, poolvars, servars,
                   gvars, wvars>>

CacheRemove(key) ==
    /\ LET r == goon_cache_remove(cache, key)
       IN  /\ cache' = r.c
           /\ ret' = r.rc
    /\ evicted' = FALSE
    /\ UNCHANGED <<qvars, cvars, hvars, pvars, now, poolvars, servars,
                   gvars, wvars>>

CacheClear ==
    /\ cache' = goon_cache_clear(cache)
    /\ evicted' = FALSE
    /\ UNCHANGED <<qvars, cvars, hvars, pvars, ret, now, poolvars, servars,
                   gvars, wvars>>

NextCache ==
    \/ Tick
    \/ \E key \in KeyInputs, value \in ValueInputs : CacheSet(key, value)
    \/ \E key \in KeyInputs : CacheGet(key)
    \/ \E key \in KeyInputs : CacheRemove(key)
    \/ CacheClear

SpecCache == Init /\ [][NextCache]_vars

(* ------------------------------------------------------------------ *)
(* Claims about the cache (checked under SpecCache)                   *)
(* ------------------------------------------------------------------ *)

CachePresent(c, key) == CacheFind(c, key, 0) < c.count

\* What a get of the key would return, without the refresh.
CacheLookup(c, key) ==
    IF CachePresent(c, key) THEN c.values[CacheFind(c, key, 0)] ELSE NULL

\* The lowest index among the slots with the minimum timestamp.
CacheVictim(c) ==
    CHOOSE i \in 0 .. CacheSize - 1 :
        /\ \A j \in 0 .. CacheSize - 1 : c.timestamps[i] <= c.timestamps[j]
        /\ \A j \in 0 .. i - 1 : c.timestamps[j] > c.timestamps[i]

\* C11: a set with a key that is not present, on a full cache, replaces
\* exactly the slot at the lowest index among those with the minimum
\* timestamp; every other key is still present with its value, and the
\* new key is present with the new value.
C11_Eviction ==
    [][\A key \in KeyInputs, value \in ValueInputs :
          (/\ CacheSet(key, value)
           /\ cache.count = CacheSize
           /\ ~CachePresent(cache, key))
          => /\ cache'.count = CacheSize
             /\ \A j \in 0 .. CacheSize - 1 :
                   j # CacheVictim(cache)
                   => /\ cache'.keys[j] = cache.keys[j]
                      /\ cache'.values[j] = cache.values[j]
                      /\ CacheLookup(cache', cache.keys[j]) = cache.values[j]
             /\ CacheLookup(cache', key) = value]_vars

\* C12: a get that hits sets the slot's timestamp to the current time and
\* returns its value (whatever the reachable cache and the key), and an
\* evicting set replaces no slot whose timestamp is strictly greater than
\* that of some other slot: a key refreshed past another slot survives the
\* next eviction.
C12_RefreshOnGet ==
    /\ [](\A key \in KeyInputs :
             CachePresent(cache, key)
             => LET i == CacheFind(cache, key, 0)
                    r == goon_cache_get(cache, key, now)
                IN  /\ r.c.timestamps[i] = now
                    /\ r.value = cache.values[i]
                    /\ \A j \in 0 .. CacheSize - 1 :
                          j # i => r.c.timestamps[j] = cache.timestamps[j])
    /\ [][evicted'
          => \A i \in 0 .. CacheSize - 1 :
                (\E j \in 0 .. CacheSize - 1 :
                    cache.timestamps[j] < cache.timestamps[i])
                => /\ cache'.keys[i] = cache.keys[i]
                   /\ cache'.values[i] = cache.values[i]
                   /\ cache'.timestamps[i] = cache.timestamps[i]]_vars

\* The cache is full, and a get has just returned the value of the key in
\* slot 0, the slot an eviction takes on a tie, and made it newer than
\* slot 1.
C12_Witness ==
    /\ cache.count = CacheSize
    /\ ret # NULL
    /\ ret = cache.values[0]
    /\ cache.timestamps[0] = now
    /\ cache.timestamps[1] < now
    /\ ~evicted

\* C13: no two slots in [0, count) hold the same key.
C13_KeysUnique ==
    \A i, j \in 0 .. cache.count - 1 :
        i # j => cache.keys[i] # cache.keys[j]

(* ------------------------------------------------------------------ *)
(* Object pool (SpecPool)                                             *)
(* ------------------------------------------------------------------ *)

\* Objects are addresses 1 .. PoolSize; the allocator hands out the lowest
\* address that is not allocated (the pool frees nothing before its
\* destruction), or NULL when it fails.
PoolAlloc(p) == p.size + 1

AllocInputs(p) == {NULL, PoolAlloc(p)}

\* the last free slot instead of the first
PoolFree_last(p, i) ==
    /\ ~p.in_use[i]
    /\ p.objects[i] # NULL
    /\ \A j \in i + 1 .. p.size - 1 : p.in_use[j] \/ p.objects[j] = NULL

\* the first slot that holds an object, in use or not
PoolFree_inUse(p, i) ==
    /\ p.objects[i] # NULL
    /\ \A j \in 0 .. i - 1 : p.objects[j] = NULL

\* if (!pool->in_use[i] && pool->objects[i]), for the first such i
PoolFree(p, i) ==
    /\ ~p.in_use[i]
    /\ p.objects[i] # NULL
    /\ \A j \in 0 .. i - 1 : p.in_use[j] \/ p.objects[j] = NULL

\* allocate while there is room and reuse only then
PoolReuses_whenFull(p) ==
    p.size >= p.capacity /\ \E i \in 0 .. p.size - 1 : PoolFree(p, i)

\* The scan for an available object comes first and finds one.
PoolReuses(p) == \E i \in 0 .. p.size - 1 : PoolFree(p, i)

\* goon_pool_acquire, obj being what pool->alloc returns if it is called
goon_pool_acquire(p, obj) ==
    IF PoolReuses(p)
    THEN LET i == CHOOSE i \in 0 .. p.size - 1 : PoolFree(p, i)
         IN  [obj |-> p.objects[i], p |-> [p EXCEPT !.in_use[i] = TRUE]]
    ELSE IF p.size < p.capacity /\ obj # NULL
    THEN [obj |-> obj,
          p |-> [p EXCEPT !.objects[p.size] = obj,
                          !.in_use[p.size] = TRUE,
                          !.size = @ + 1]]
    ELSE [obj |-> NULL, p |-> p]

\* release that frees the object and empties its slot
goon_pool_release_free(p, obj) ==
    IF \E i \in 0 .. p.size - 1 : p.objects[i] = obj
    THEN LET i == CHOOSE i \in 0 .. p.size - 1 : p.objects[i] = obj
         IN  [rc |-> GOON_SUCCESS,
              p |-> [p EXCEPT !.in_use[i] = FALSE, !.objects[i] = NULL]]
    ELSE [rc |-> GOON_ERROR_NOT_FOUND, p |-> p]

goon_pool_release(p, obj) ==
    IF \E i \in 0 .. p.size - 1 : p.objects[i] = obj
    THEN LET i == CHOOSE i \in 0 .. p.size - 1 :
                     /\ p.objects[i] = obj
                     /\ \A j \in 0 .. i - 1 : p.objects[j] # obj
         IN  [rc |-> GOON_SUCCESS, p |-> [p EXCEPT !.in_use[i] = FALSE]]
    ELSE [rc |-> GOON_ERROR_NOT_FOUND, p |-> p]

PoolAcquire(obj) ==
    /\ LET r == goon_pool_acquire(pool, obj)
       IN  /\ pool' = r.p
           /\ ret' = r.obj
           /\ pseq' = IF r.obj = NULL THEN NoSeq
                      ELSE IF pseq.st = "released"
                      THEN [st |-> "again", o |-> r.obj]
                      ELSE [st |-> "acquired", o |-> r.obj]
    /\ UNCHANGED <<qvars, cvars, hvars, pvars, cachevars, servars,
                   gvars, wvars>>

\* The client releases an address, pool-owned or not.
PoolRelease(obj) ==
    /\ LET r == goon_pool_release(pool, obj)
       IN  /\ pool' = r.p
           /\ ret' = r.rc
           /\ pseq' = IF pseq.st \in {"acquired", "again"} /\ pseq.o = obj
                      THEN [st |-> "released", o |-> obj]
                      ELSE NoSeq
    /\ UNCHANGED <<qvars, cvars, hvars, pvars, cachevars, servars,
                   gvars, wvars>>

NextPool ==
    \/ \E obj \in AllocInputs(pool) : PoolAcquire(obj)
    \/ \E obj \in 1 .. PoolSize : PoolRelease(obj)

\* A pool created by goon_pool_create(c) for some c, 0 included.
InitPool ==
    /\ queue = goon_queue_create(MaxQueueSize)
    /\ InitEventsCreated
    /\ InitHandlers
    /\ InitContext
    /\ InitProcess
    /\ cache = goon_cache_create
    /\ now = 1
    /\ evicted = FALSE
    /\ \E c \in 0 .. PoolSize : pool = goon_pool_create(c)
    /\ pseq = NoSeq
    /\ InitSerial
    /\ InitWorker

SpecPool == InitPool /\ [][NextPool]_vars

DigitChars == <<"0", "1", "2", "3", "4", "5", "6", "7", "8", "9">>

IsDigit(c) == \E i \in 1 .. 10 : DigitChars[i] = c

DigitValue(c) == (CHOOSE i \in 1 .. 10 : DigitChars[i] = c) - 1

\* %u, %d and %ld of a number that is not negative
RECURSIVE FormatNum(_)
FormatNum(n) ==
    IF n < 10 THEN <<DigitChars[n + 1]>>
    ELSE FormatNum(n \div 10) \o <<DigitChars[(n % 10) + 1]>>

\* The literal parts of the format "EVENT{id:%u,name:%s,priority:%d,
\* timestamp:%ld}".
LitId == <<"E", "V", "E", "N", "T", "{", "i", "d", ":">>
LitName == <<",", "n", "a", "m", "e", ":">>
LitPriority == <<",", "p", "r", "i", "o", "r", "i", "t", "y", ":">>
LitTimestamp == <<",", "t", "i", "m", "e", "s", "t", "a", "m", "p", ":">>
LitEnd == <<"}">>

\* What snprintf would write were the buffer large enough.
SerialText(ev) ==
    LitId \o FormatNum(ev.id) \o LitName \o ev.name
          \o LitPriority \o FormatNum(ev.priority)
          \o LitTimestamp \o FormatNum(ev.timestamp) \o LitEnd

\* goon_event_serialize into a buffer of buffer_size bytes that holds buf:
\* snprintf keeps buffer_size - 1 characters, and the call fails when that
\* is not all of them.
goon_event_serialize(ev, buf, buffer_size) ==
    LET text == SerialText(ev)
        written == Len(text)
    IN  IF buffer_size = 0
        THEN [rc |-> GOON_ERROR_NULL_PTR, buffer |-> buf]
        ELSE IF written >= buffer_size
        THEN [rc |-> GOON_ERROR_OVERFLOW,
              buffer |-> SubSeq(text, 1, buffer_size - 1)]
        ELSE [rc |-> GOON_SUCCESS, buffer |-> text]

\* sscanf: a literal matches at pos
MatchLit(buf, pos, lit) ==
    /\ pos + Len(lit) - 1 <= Len(buf)
    /\ SubSeq(buf, pos, pos + Len(lit) - 1) = lit

\* sscanf %u, %d, %ld on digits: the position after the digits and the value
RECURSIVE ScanNum(_, _, _)
ScanNum(buf, pos, acc) ==
    IF pos <= Len(buf) /\ IsDigit(buf[pos])
    THEN ScanNum(buf, pos + 1, acc * 10 + DigitValue(buf[pos]))
    ELSE [pos |-> pos, val |-> acc]

\* sscanf %[ fails unless at least one character matches the set
ScanSetMin == 1

\* sscanf %127[^,]: the position after at most width characters other
\* than ','
RECURSIVE ScanSet(_, _, _)
ScanSet(buf, pos, width) ==
    IF width > 0 /\ pos <= Len(buf) /\ buf[pos] # ","
    THEN ScanSet(buf, pos + 1, width - 1)
    ELSE pos

\* The sscanf of goon_event_deserialize: how many fields it assigned, and
\* the fields.
ParseEvent(buf) ==
    LET p1 == Len(LitId) + 1
        n1 == ScanNum(buf, p1, 0)
        p2 == n1.pos + Len(LitName)
        e2 == ScanSet(buf, p2, NameLen - 1)
        p3 == e2 + Len(LitPriority)
        n3 == ScanNum(buf, p3, 0)
        p4 == n3.pos + Len(LitTimestamp)
        n4 == ScanNum(buf, p4, 0)
        none == [parsed |-> 0, id |-> 0, name |-> <<>>, priority |-> 0,
                 timestamp |-> 0]
    IN  IF ~MatchLit(buf, 1, LitId) \/ n1.pos = p1
        THEN none
        ELSE IF ~MatchLit(buf, n1.pos, LitName) \/ e2 - p2 < ScanSetMin
        THEN [none EXCEPT !.parsed = 1, !.id = n1.val]
        ELSE IF ~MatchLit(buf, e2, LitPriority) \/ n3.pos = p3
        THEN [none EXCEPT !.parsed = 2, !.id = n1.val,
                          !.name = SubSeq(buf, p2, e2 - 1)]
        ELSE IF ~MatchLit(buf, n3.pos, LitTimestamp) \/ n4.pos = p4
        THEN [none EXCEPT !.parsed = 3, !.id = n1.val,
                          !.name = SubSeq(buf, p2, e2 - 1),
                          !.priority = n3.val]
        ELSE [parsed |-> 4, id |-> n1.val, name |-> SubSeq(buf, p2, e2 - 1),
              priority |-> n3.val, timestamp |-> n4.val]

\* strncpy(event->name, name, GOON_MAX_NAME_LEN - 1) and the terminator
CopyName(name) ==
    IF Len(name) <= NameLen - 1 THEN name ELSE SubSeq(name, 1, NameLen - 1)

\* The event goon_event_create makes at time t with the id counter at n.
NewEvent(n, name, priority, t) ==
    [id |-> n, name |-> CopyName(name), priority |-> priority,
     timestamp |-> t, live |-> TRUE]

\* The names a client passes: the empty name, ",", "}", and "a...a" as long
\* as a name buffer holds and one character longer.
NameInputs ==
    {<<>>, <<",">>, <<"}">>,
     [i \in 1 .. NameLen - 1 |-> "a"], [i \in 1 .. NameLen |-> "a"]}

\* The sizes of the buffers a client passes: none, too small, large enough.
BufferInputs == {0, 16, 64}

\* The address malloc returns: the lowest one that holds no event (which
\* address it is makes no difference to the program).
FreeEvents ==
    LET free == {e \in Events : ~evs[e].live}
    IN  {e \in free : \A f \in free : e <= f}

\* The client creates an event, its priority rotating with the id.
EventCreate(e, name) ==
    /\ e \in FreeEvents
    /\ evs' = [evs EXCEPT ![e] =
                 NewEvent(g_next_event_id, name,
                          PriorityInput(g_next_event_id), now)]
    /\ g_next_event_id' = g_next_event_id + 1
    /\ ret' = e
    /\ UNCHANGED <<queue, enext, epriority, estatus, pushed, popped, emit_no,
                   cvars, hvars, pvars, cachevars, poolvars, buffer, src,
                   gvars, wvars>>

EventSerialize(e, buffer_size) ==
    /\ evs[e].live
    /\ LET r == goon_event_serialize(evs[e], buffer, buffer_size)
       IN  /\ buffer' = r.buffer
           /\ ret' = r.rc
           /\ src' = IF r.rc = GOON_SUCCESS THEN e
                     ELSE IF r.rc = GOON_ERROR_OVERFLOW THEN NULL
                     ELSE src
    /\ UNCHANGED <<qvars, cvars, hvars, pvars, cachevars, poolvars, evs,
                   gvars, wvars>>

\* goon_event_deserialize(buffer): null unless four fields parse; else
\* goon_event_create(name, priority), then id and timestamp are overwritten.
EventDeserialize(e) ==
    /\ e \in FreeEvents
    /\ LET f == ParseEvent(buffer)
       IN  IF f.parsed # 4
           THEN /\ ret' = NULL
                /\ UNCHANGED <<evs, g_next_event_id>>
           ELSE /\ evs' = [evs EXCEPT ![e] =
                             [NewEvent(g_next_event_id, f.name, f.priority,
                                       now)
                                EXCEPT !.id = f.id,
                                       !.timestamp = f.timestamp]]
                /\ g_next_event_id' = g_next_event_id + 1
                /\ ret' = e
    /\ UNCHANGED <<queue, enext, epriority, estatus, pushed, popped, emit_no,
                   cvars, hvars, pvars, cachevars, poolvars, buffer, src,
                   gvars, wvars>>

SerialTick ==
    /\ now < MaxTime
    /\ now' = now + 1
    /\ UNCHANGED <<qvars, cvars, hvars, pvars, ret, cache, evicted, poolvars,
                   servars, gvars, wvars>>

NextSerial ==
    \/ SerialTick
    \/ \E e \in Events, name \in NameInputs : EventCreate(e, name)
    \/ \E e \in Events, buffer_size \in BufferInputs :
          EventSerialize(e, buffer_size)
    \/ \E e \in Events : EventDeserialize(e)

\* The process has created no event yet, or eight of them.
InitSerialIds ==
    /\ queue = goon_queue_create(MaxQueueSize)
    /\ enext = [e \in Events |-> NULL]
    /\ epriority = [e \in Events |-> GOON_PRIORITY_LOW]
    /\ estatus = [e \in Events |-> "unborn"]
    /\ g_next_event_id \in {1, 9}
    /\ pushed = <<>>
    /\ popped = <<>>
    /\ emit_no = [e \in Events |-> 0]
    /\ InitHandlers
    /\ InitContext
    /\ InitProcess
    /\ InitExtras

SpecSerial == InitSerialIds /\ [][NextSerial]_vars

\* The name has neither ',' nor '}'.
PlainName(name) == \A i \in 1 .. Len(name) : name[i] \notin {",", "}"}

\* C15: no two events that exist in the process, whether made by
\* goon_event_create or by goon_event_deserialize, share an id.
C15_EventIdsUnique ==
    \A e, f \in Events :
       (e # f /\ evs[e].live /\ evs[f].live) => evs[e].id # evs[f].id

\* C16: when the buffer holds the serialization of an event whose name has
\* neither ',' nor '}' (the empty name included), written by a serialize call
\* that returned Success, deserialize returns an event with the same id,
\* name, priority and timestamp.
C16_RoundTrip ==
    [][\A e \in Events :
          (/\ EventDeserialize(e)
           /\ src # NULL
           /\ buffer = SerialText(evs[src])
           /\ PlainName(evs[src].name))
          => /\ ret' # NULL
             /\ evs'[ret'].id = evs[src].id
             /\ evs'[ret'].name = evs[src].name
             /\ evs'[ret'].priority = evs[src].priority
             /\ evs'[ret'].timestamp = evs[src].timestamp]_vars

(* ------------------------------------------------------------------ *)
(* The singleton context (SpecSingleton)                              *)
(* ------------------------------------------------------------------ *)

MaxContexts == 3

\* The addresses malloc may return for a context.
Contexts == 1 .. MaxContexts

InitRefuses_never(ctx) == FALSE

\* if (g_goon_ctx) return GOON_ERROR;
InitRefuses(ctx) == ctx # NULL

\* goon_init: refused while a context is current; else goon_context_create
\* at address c (state Idle, no handler, empty queue, fresh cache and pool,
\* the next context id), then set_state(Initializing).
goon_init(c) ==
    /\ pc = "idle"
    /\ IF InitRefuses(g_goon_ctx)
       THEN /\ ret' = GOON_ERROR
            /\ UNCHANGED <<qvars, cvars, hvars, pvars, xvars>>
       ELSE /\ g_next_context_id <= MaxContexts
            /\ g_goon_ctx' = c
            /\ ctx_id' = g_next_context_id
            /\ g_next_context_id' = g_next_context_id + 1
            /\ state' = GOON_STATE_INITIALIZING
            /\ prev_state' = Track(GOON_STATE_IDLE)
            /\ handlers' = NULL
            /\ handler_count' = 0
            /\ regs' = <<>>
            /\ queue' = goon_queue_create(MaxQueueSize)
            /\ event_count' = 0
            /\ total_events_processed' = 0
            /\ cache' = goon_cache_create
            /\ pool' = goon_pool_create(PoolSize)
            /\ ret' = GOON_SUCCESS
            /\ UNCHANGED <<enext, epriority, estatus, g_next_event_id, pushed,
                           popped, emit_no, hnext, henabled, call_count,
                           error_count, hstatus, g_next_handler_id, hname, pvars,
                           now, evicted, pseq, servars, wvars>>

\* goon_cleanup: nothing without a current context; else
\* goon_context_destroy frees the handlers of the list and the events of
\* the queue with the context, and the reference is cleared.
goon_cleanup ==
    /\ pc = "idle"
    /\ IF g_goon_ctx = NULL
       THEN UNCHANGED vars
       ELSE /\ hstatus' = [h \in Handlers |->
                             IF hstatus[h] = "registered" THEN "destroyed"
                             ELSE hstatus[h]]
            /\ estatus' = [e \in Events |->
                             IF e \in Range(QueueContents) THEN "destroyed"
                             ELSE estatus[e]]
            /\ emit_no' = [e \in Events |->
                             IF e \in Range(QueueContents) THEN 0
                             ELSE emit_no[e]]
            /\ g_goon_ctx' = NULL
            /\ UNCHANGED <<queue, enext, epriority, g_next_event_id, pushed,
                           popped, cvars, handlers, hnext, henabled,
                           call_count, error_count, g_next_handler_id, hname, regs,
                           pvars, ret, cachevars, poolvars, servars,
                           g_next_context_id, ctx_id, wvars>>

\* A context operation called with goon_get_context() while there is no
\* current context: if (!ctx) return GOON_ERROR_NULL_PTR;
NullContextCall ==
    /\ pc = "idle"
    /\ g_goon_ctx = NULL
    /\ ret' = GOON_ERROR_NULL_PTR
    /\ UNCHANGED <<qvars, cvars, hvars, pvars, xvars>>

\* The client works on the current context, goon_get_context().
NextSingleton ==
    \/ \E c \in Contexts : goon_init(c)
    \/ goon_cleanup
    \/ NullContextCall
    \/ g_goon_ctx # NULL /\ goon_start
    \/ g_goon_ctx # NULL /\ goon_pause
    \/ g_goon_ctx # NULL /\ goon_resume
    \/ g_goon_ctx # NULL /\ \E h \in Handlers : goon_context_register_handler(h)
    \/ g_goon_ctx # NULL /\ \E e \in Events : goon_context_emit_event(e)

\* No context yet: the client has created its events and handlers, and the
\* context fields stand for no object until goon_init.
InitSingleton ==
    /\ queue = goon_queue_create(MaxQueueSize)
    /\ InitEventsCreated
    /\ InitHandlers
    /\ state = GOON_STATE_IDLE
    /\ prev_state = NoState
    /\ handler_count = 0
    /\ event_count = 0
    /\ total_events_processed = 0
    /\ ctx_id = 0
    /\ g_next_context_id = 1
    /\ g_goon_ctx = NULL
    /\ InitProcess
    /\ InitExtras

SpecSingleton == InitSingleton /\ [][NextSingleton]_vars

\* C17: the current-context reference is null before the first init and
\* after every cleanup; init while a context is current returns Error and
\* leaves the context and its state untouched; a successful init leaves the
\* new current context in state Initializing; init without a current
\* context (the first, or after cleanup) succeeds.
C17_Singleton ==
    /\ [](g_next_context_id = 1 => g_goon_ctx = NULL)
    /\ [][/\ goon_cleanup => g_goon_ctx' = NULL
          /\ \A c \in Contexts :
                goon_init(c) =>
                   /\ g_goon_ctx # NULL =>
                         /\ ret' = GOON_ERROR
                         /\ UNCHANGED <<g_goon_ctx, ctx_id, cvars, hvars,
                                        queue, enext, cache, pool>>
                   /\ g_goon_ctx = NULL =>
                         /\ ret' = GOON_SUCCESS
                         /\ g_goon_ctx' # NULL
                         /\ ctx_id' # ctx_id
                         /\ state' = GOON_STATE_INITIALIZING]_vars

\* init, work, cleanup and init again have succeeded, the second context
\* runs with a handler, and a further init was refused.
C17_Witness ==
    /\ g_goon_ctx # NULL
    /\ ctx_id = 2
    /\ state = GOON_STATE_RUNNING
    /\ handlers # NULL
    /\ ret = GOON_ERROR

(* ------------------------------------------------------------------ *)
(* Emit, clear and dispatch (SpecEmit)                                *)
(* ------------------------------------------------------------------ *)

ClearLoop_once(q, nxt) ==
    IF goon_queue_is_empty(q) THEN [q |-> q, next |-> nxt]
    ELSE LET r == goon_queue_pop(q, nxt)
         IN  [q |-> r.q, next |-> r.next]

\* The loop of goon_context_clear_queue: pop until the queue is empty.
RECURSIVE ClearLoop(_, _)
ClearLoop(q, nxt) ==
    IF goon_queue_is_empty(q) THEN [q |-> q, next |-> nxt]
    ELSE LET r == goon_queue_pop(q, nxt)
         IN  ClearLoop(r.q, r.next)

\* goon_context_clear_queue: every queued event is popped and destroyed.
goon_context_clear_queue ==
    /\ pc = "idle"
    /\ LET r == ClearLoop(queue, enext)
           gone == Range(QueueContents) \ Range(Chain(r.next, r.q.head,
                                                      MaxEvents))
       IN  /\ queue' = r.q
           /\ enext' = r.next
           /\ estatus' = [e \in Events |->
                            IF e \in gone THEN "destroyed" ELSE estatus[e]]
           /\ emit_no' = [e \in Events |->
                            IF e \in gone THEN 0 ELSE emit_no[e]]
    /\ ret' = GOON_SUCCESS
    /\ UNCHANGED <<epriority, g_next_event_id, pushed, popped, cvars, hvars,
                   pvars, xvars>>

\* The client has created MaxEvents events, one more than the context's
\* queue holds, and the context.
InitEmit ==
    /\ queue = goon_queue_create(MaxQueueSize)
    /\ enext = [e \in Events |-> NULL]
    /\ epriority = [e \in Events |-> PriorityInput(e)]
    /\ estatus = [e \in Events |-> "client"]
    /\ g_next_event_id = MaxEvents + 1
    /\ pushed = <<>>
    /\ popped = <<>>
    /\ emit_no = [e \in Events |-> 0]
    /\ InitHandlers
    /\ InitContext
    /\ InitProcess
    /\ InitExtras

NextEmit ==
    \/ \E h \in Handlers : goon_context_register_handler(h)
    \/ \E h \in Handlers : goon_handler_disable(h)
    \/ goon_start
    \/ goon_pause
    \/ \E e \in Events : goon_context_emit_event(e)
    \/ goon_context_clear_queue
    \/ goon_context_process_events
    \/ ProcessLoop
    \/ ProcessVisit /\ result' = GOON_SUCCESS
    \/ ProcessDone

SpecEmit == InitEmit /\ [][NextEmit]_vars

\* C18: a handler is invoked on an event only after the emit of the event
\* returned Success; when a process call made in Running state returns, no
\* event emitted with success is left in the queue, and every event it
\* dispatched was passed to every enabled handler; an event whose emit
\* returned Overflow is in no queue and in no dispatch until an emit of it
\* succeeds.
C18_EmitBeforeDispatch ==
    /\ [](\A e \in Events :
             /\ (e = event \/ e \in Range(QueueContents)) => emit_no[e] > 0
             /\ estatus[e] = "rejected" =>
                   /\ e # event
                   /\ e \notin Range(QueueContents)
                   /\ emit_no[e] = 0)
    /\ [][/\ (ProcessVisit /\ log' # log) => emit_no[event] > 0
          /\ ProcessDone => log = EnabledOnly(HandlerList)
          /\ (ProcessLoop /\ pc' = "idle") =>
                /\ queue'.size = 0
                /\ \A e \in Events : estatus'[e] # "queued"
          /\ \A e \in Events :
                /\ (goon_context_emit_event(e) /\ ret' # GOON_SUCCESS) =>
                      /\ ret' = GOON_ERROR_OVERFLOW
                      /\ estatus'[e] = "rejected"
                      /\ queue' = queue
                /\ (estatus[e] = "rejected" /\ estatus'[e] # "rejected") =>
                      /\ estatus'[e] = "queued"
                      /\ emit_no'[e] > 0]_vars

\* Two events were emitted, the emit of the third overflowed, and a process
\* call in Running state has dispatched the two to the enabled handler and
\* returned 2; the third is still the client's.
C18_Witness ==
    /\ pc = "idle"
    /\ state = GOON_STATE_RUNNING
    /\ ret = 2
    /\ total_events_processed = 2
    /\ event_count = 2
    /\ estatus[3] = "rejected"
    /\ \E h \in Handlers : call_count[h] = 2

(* ------------------------------------------------------------------ *)
(* Registration without restriction (SpecRegistry)                    *)
(* ------------------------------------------------------------------ *)

\* goon_context_register_handler with any handler the client holds, one
\* that is in the list already included: the call does not look at the
\* list.  At most MaxHandlers + 1 registrations.
RegisterAny(h) ==
    /\ pc = "idle"
    /\ hstatus[h] \in {"created", "registered"}
    /\ handler_count <= MaxHandlers
    /\ SetRegistry(RegisterLink(Registry, h), <<h>>)
    /\ ret' = GOON_SUCCESS
    /\ UNCHANGED <<qvars, state, prev_state, event_count, total_events_processed,
                   henabled, call_count, error_count, g_next_handler_id, hname,
                   pvars, xvars>>

\* The handler visits followed within one event: the walk of the list is
\* followed for at most twice the registrations the model allows.
MaxVisits == 2 * (MaxHandlers + 1)

NextRegistry ==
    \/ \E h \in Handlers : RegisterAny(h)
    \/ goon_start
    \/ \E e \in Events : goon_context_emit_event(e)
    \/ goon_context_process_events
    \/ ProcessLoop
    \/ Len(log) < MaxVisits /\ ProcessVisit /\ result' = GOON_SUCCESS
    \/ ProcessDone

SpecRegistry == Init /\ [][NextRegistry]_vars

\* C19: a process call on a Running context returns after finitely many
\* handler invocations: while an event is dispatched, the handlers invoked
\* on it are no more than the handlers registered.
C19_ProcessCompletes == pc = "dispatch" => Len(log) <= handler_count

\* The handlers on the walk from the list head.
ReachableHandlers == Range(Chain(hnext, handlers, MaxHandlers))

\* C31: after any sequence of register_handler, register_batch and
\* unregister_handler calls, the same handler registered more than once
\* included, handler_count is the number of handlers reachable from the
\* list head and the list is acyclic: the walk from the head meets no
\* handler twice and ends at a null link.
C31_RegistryCount ==
    /\ handler_count = Cardinality(ReachableHandlers)
    /\ Len(Chain(hnext, handlers, MaxHandlers + 1)) <= MaxHandlers
    /\ \A i, j \in 1 .. Len(HandlerList) :
          HandlerList[i] = HandlerList[j] => i = j

(* ------------------------------------------------------------------ *)
(* The structure of the queue (SpecQueue)                             *)
(* ------------------------------------------------------------------ *)

\* C20: after any sequence of push and pop calls, size <= max_size, size
\* is the number of events reachable from head through the next links (the
\* walk ends at a null link after size events), and head is null exactly
\* when tail is null exactly when size is 0.
C20_QueueStructure ==
    /\ queue.size <= queue.max_size
    /\ queue.size = Len(QueueContents)
    /\ (queue.size > 0 => enext[QueueContents[queue.size]] = NULL)
    /\ (queue.head = NULL) <=> (queue.tail = NULL)
    /\ (queue.tail = NULL) <=> (queue.size = 0)

\* The queue was filled to its bound and popped empty again.
C20_Witness ==
    /\ Len(pushed) = MaxQueueSize
    /\ Len(popped) = MaxQueueSize
    /\ queue.max_size = MaxQueueSize
    /\ queue.size = 0
    /\ queue.head = NULL

(* ------------------------------------------------------------------ *)
(* Ownership of events over the life of contexts (SpecOwnership)      *)
(* ------------------------------------------------------------------ *)

\* The client works on the current context from goon_init to
\* goon_cleanup: it registers handlers, starts, emits, clears and drives.
\* Each context is allocated at an address of its own.
NextOwnership ==
    \/ goon_init(g_next_context_id)
    \/ goon_cleanup
    \/ g_goon_ctx # NULL /\ goon_start
    \/ g_goon_ctx # NULL /\ \E h \in Handlers : goon_context_register_handler(h)
    \/ g_goon_ctx # NULL /\ \E e \in Events : goon_context_emit_event(e)
    \/ g_goon_ctx # NULL /\ goon_context_clear_queue
    \/ g_goon_ctx # NULL /\ goon_context_process_events
    \/ ProcessLoop
    \/ ProcessVisit /\ result' = GOON_SUCCESS
    \/ ProcessDone

SpecOwnership == InitSingleton /\ [][NextOwnership]_vars

\* C21: an emitted event is taken into dispatch at most once, and only from
\* the queue; it is destroyed at most once: by the driver after the walk of
\* the handlers has ended and the event is out of the queue, by clear_queue
\* which leaves it out of the queue, or with the context; a destroyed event
\* stays destroyed.
C21_SingleOwner ==
    [][\A e \in Events :
          /\ estatus[e] = "destroyed" => estatus'[e] = "destroyed"
          /\ estatus[e] = "dispatch" =>
                estatus'[e] \in {"dispatch", "destroyed"}
          /\ (estatus[e] # "dispatch" /\ estatus'[e] = "dispatch") =>
                /\ estatus[e] = "queued"
                /\ e = queue.head
                /\ e \notin Range(QueueContents')
          /\ (estatus[e] # "destroyed" /\ estatus'[e] = "destroyed") =>
                \/ /\ ProcessDone
                   /\ e = event
                   /\ estatus[e] = "dispatch"
                   /\ handler = NULL
                   /\ e \notin Range(QueueContents)
                \/ /\ goon_context_clear_queue
                   /\ estatus[e] = "queued"
                   /\ QueueContents' = <<>>
                \/ /\ goon_cleanup
                   /\ estatus[e] = "queued"
                   /\ g_goon_ctx' = NULL]_vars

\* In the second context one event was dispatched to a handler and
\* destroyed by the driver, the other was queued and destroyed with the
\* first context.
C21_Witness ==
    /\ ctx_id = 2
    /\ g_goon_ctx # NULL
    /\ pc = "idle"
    /\ total_events_processed = 1
    /\ \E h \in Handlers : call_count[h] = 1
    /\ \A e \in 1 .. MaxCtxEvents : estatus[e] = "destroyed"

(* ------------------------------------------------------------------ *)
(* Frame and round trip of the cache (SpecCache)                      *)
(* ------------------------------------------------------------------ *)

\* C22: in every state the cache reaches, a set on a key that is present
\* replaces the value, the size and the timestamp of the entry found and
\* nothing else: the keys, the count and every other entry are as before,
\* and nothing is evicted, in a full cache too.
C22_SetPresent ==
    \A key \in KeyInputs, value \in ValueInputs :
       CachePresent(cache, key) =>
          LET i == CacheFind(cache, key, 0)
              r == goon_cache_set(cache, key, value, SizeInput(value), now)
          IN  /\ r.did = "update"
              /\ r.c.count = cache.count
              /\ r.c.keys = cache.keys
              /\ r.c.values = [cache.values EXCEPT ![i] = value]
              /\ r.c.sizes = [cache.sizes EXCEPT ![i] = SizeInput(value)]
              /\ r.c.timestamps = [cache.timestamps EXCEPT ![i] = now]

\* The cache is full, and the entry of slot 0, the older one when it was
\* set again, has the second value and size and the time of now; the last
\* operation returned Success and evicted nothing.
C22_Witness ==
    /\ cache.count = CacheSize
    /\ ~evicted
    /\ ret = GOON_SUCCESS
    /\ cache.values[0] = 2
    /\ cache.sizes[0] = SizeInput(2)
    /\ cache.timestamps[0] = now
    /\ \A i \in 1 .. CacheSize - 1 :
          /\ cache.timestamps[i] < now
          /\ cache.keys[i] # cache.keys[0]

\* The entries of the cache in slot order: key, value, size and timestamp
\* of the slots below count.
CacheEntries(c) ==
    [n \in 1 .. c.count |->
       [key |-> c.keys[n - 1], value |-> c.values[n - 1],
        size |-> c.sizes[n - 1], timestamp |-> c.timestamps[n - 1]]]

\* The sequence without its n-th element.
DropNth(seq, n) == SubSeq(seq, 1, n - 1) \o SubSeq(seq, n + 1, Len(seq))

CacheAnswer(c, key) ==
    LET r == goon_cache_get(c, key, now)
    IN  [value |-> r.value, size |-> r.size]

NoAnswer == [value |-> NULL, size |-> 0]

\* C24: right after set(k, v, n), get(k) returns v with size n; the answer
\* for k stays what it is over every operation on another key that does
\* not evict, and over get; after remove(k), and after clear, get(k)
\* returns null.
C24_SetGet ==
    [][\A key \in KeyInputs :
          /\ \A value \in ValueInputs :
                CacheSet(key, value) =>
                   CacheAnswer(cache', key) =
                      [value |-> value, size |-> SizeInput(value)]
          /\ CacheRemove(key) => CacheAnswer(cache', key) = NoAnswer
          /\ CacheClear => CacheAnswer(cache', key) = NoAnswer
          /\ \A other \in KeyInputs \ {key} :
                (\/ /\ \E value \in ValueInputs : CacheSet(other, value)
                    /\ ~evicted'
                 \/ CacheRemove(other)
                 \/ CacheGet(other)
                 \/ CacheGet(key))
                => CacheAnswer(cache', key) = CacheAnswer(cache, key)]_vars

(* ------------------------------------------------------------------ *)
(* Invariant and policy of the pool (SpecPool)                        *)
(* ------------------------------------------------------------------ *)

\* C25: after any sequence of acquire and release calls the allocated
\* slots are no more than capacity, every slot in use holds an object, and
\* an allocated object stays in its slot: no call empties or changes a slot
\* below size, and size never goes down.
C25_PoolInvariant ==
    /\ [](/\ pool.size <= pool.capacity
          /\ \A i \in 0 .. PoolSize - 1 :
                /\ pool.in_use[i] => pool.objects[i] # NULL
                /\ i < pool.size <=> pool.objects[i] # NULL)
    /\ [][/\ pool'.size >= pool.size
          /\ pool'.capacity = pool.capacity
          /\ \A i \in 0 .. pool.size - 1 :
                pool'.objects[i] = pool.objects[i]]_vars

\* The pool is allocated up to its capacity, and the object of slot 0 was
\* released last: it is free and still in its slot.
C25_Witness ==
    /\ pool.size = pool.capacity
    /\ pool.capacity = PoolSize
    /\ pseq = [st |-> "released", o |-> pool.objects[0]]
    /\ ret = GOON_SUCCESS
    /\ ~pool.in_use[0]
    /\ pool.objects[0] # NULL
    /\ \A i \in 1 .. PoolSize - 1 : pool.in_use[i]

\* The allocated slots that are not in use.
PoolIdle(p) == {i \in 0 .. p.size - 1 : ~p.in_use[i]}

\* C26: in every state the pool reaches, acquire with an allocator that
\* does not fail returns the object of the lowest allocated slot that is
\* not in use and marks it in use; when there is none and fewer than
\* capacity slots are allocated it returns a new object in the slot at
\* size; it returns null exactly when capacity slots are allocated and all
\* in use, and then the pool is as before.
C26_AcquirePolicy ==
    LET r == goon_pool_acquire(pool, PoolAlloc(pool))
        idle == PoolIdle(pool)
        low == CHOOSE i \in idle : \A j \in idle : i <= j
    IN  /\ idle # {} =>
              /\ r.obj = pool.objects[low]
              /\ r.p = [pool EXCEPT !.in_use[low] = TRUE]
        /\ (idle = {} /\ pool.size < pool.capacity) =>
              /\ r.obj = PoolAlloc(pool)
              /\ r.p = [pool EXCEPT !.objects[pool.size] = PoolAlloc(pool),
                                    !.in_use[pool.size] = TRUE,
                                    !.size = pool.size + 1]
        /\ r.obj = NULL <=> (idle = {} /\ pool.size = pool.capacity)
        /\ r.obj = NULL => r.p = pool

\* Acquire has just returned the object of slot 0 while slot 1, allocated
\* after it, is free as well; the slots from 2 on are in use.
C26_Witness ==
    /\ pool.size = PoolSize
    /\ pseq.st \in {"acquired", "again"}
    /\ ret = pool.objects[0]
    /\ pool.in_use[0]
    /\ ~pool.in_use[1]
    /\ \A i \in 2 .. PoolSize - 1 : pool.in_use[i]

\* The slots of p that hold the object obj.
SlotsOf(p, obj) == {i \in 0 .. p.size - 1 : p.objects[i] = obj}

\* C35: acquire never returns an object whose slot is marked in use; the
\* slot of the object it returns is in use afterwards and stays in use
\* until a release of that object, so no other acquire returns the object
\* in between; release of a pointer the pool does not own returns NotFound
\* and changes no in_use flag.
C35_PoolExclusive ==
    [][/\ \A obj \in AllocInputs(pool) :
            (PoolAcquire(obj) /\ ret' # NULL)
               => /\ \A i \in SlotsOf(pool, ret') : ~pool.in_use[i]
                  /\ Cardinality(SlotsOf(pool', ret')) = 1
                  /\ \A i \in SlotsOf(pool', ret') : pool'.in_use[i]
       /\ \A i \in 0 .. pool.size - 1 :
            (pool.in_use[i] /\ ~pool'.in_use[i])
               => /\ PoolRelease(pool.objects[i])
                  /\ ret' = GOON_SUCCESS
       /\ \A obj \in 1 .. PoolSize :
            (PoolRelease(obj) /\ SlotsOf(pool, obj) = {})
               => /\ ret' = GOON_ERROR_NOT_FOUND
                  /\ pool' = pool]_vars

\* A pool of capacity 2 with both objects out: the last acquire returned
\* the second object while the first was in use.
C35_Witness ==
    /\ pool.capacity = 2
    /\ pool.size = 2
    /\ pool.in_use[0]
    /\ pool.in_use[1]
    /\ pseq = [st |-> "acquired", o |-> pool.objects[1]]
    /\ ret = pool.objects[1]

(* ------------------------------------------------------------------ *)
(* Unregistering handlers (SpecUnregister)                            *)
(* ------------------------------------------------------------------ *)

\* The names the client gives its handlers at goon_handler_create, and
\* passes to unregister.
HandlerNames == {1, 2}

Unlink_head(r, prev, h) == [r EXCEPT !.head = r.next[h]]

\* if (prev) prev->next = handler->next; else ctx->handlers = handler->next;
Unlink(r, prev, h) ==
    IF prev # NULL THEN [r EXCEPT !.next[prev] = r.next[h]]
    ELSE [r EXCEPT !.head = r.next[h]]

\* The scan of goon_context_unregister_handler from handler h with its
\* predecessor prev: the first handler with the name is unlinked and
\* destroyed and the count decremented.
RECURSIVE UnregisterScan(_, _, _, _)
UnregisterScan(r, name, prev, h) ==
    IF h = NULL
    THEN [rc |-> GOON_ERROR_NOT_FOUND, r |-> r, gone |-> NULL]
    ELSE IF hname[h] = name
    THEN [rc |-> GOON_SUCCESS,
          r |-> [Unlink(r, prev, h) EXCEPT !.count = @ - 1],
          gone |-> h]
    ELSE UnregisterScan(r, name, h, r.next[h])

\* The sequence without the occurrences of x.
RECURSIVE Without(_, _)
Without(seq, x) ==
    IF seq = <<>> THEN <<>>
    ELSE IF seq[1] = x THEN Without(Tail(seq), x)
    ELSE <<seq[1]>> \o Without(Tail(seq), x)

goon_context_unregister_handler(name) ==
    /\ pc = "idle"
    /\ LET u == UnregisterScan(Registry, name, NULL, handlers)
       IN  /\ handlers' = u.r.head
           /\ hnext' = u.r.next
           /\ handler_count' = u.r.count
           /\ regs' = Without(regs, u.gone)
           /\ hstatus' = [h \in Handlers |->
                            IF h = u.gone THEN "destroyed" ELSE hstatus[h]]
           /\ ret' = u.rc
    /\ UNCHANGED <<qvars, state, prev_state, event_count, total_events_processed,
                   henabled, call_count, error_count, g_next_handler_id, hname,
                   pvars, xvars>>

NextUnregister ==
    \/ \E h \in Handlers : goon_context_register_handler(h)
    \/ \E name \in HandlerNames : goon_context_unregister_handler(name)
    \/ goon_start
    \/ \E e \in Events : goon_context_emit_event(e)
    \/ goon_context_process_events
    \/ ProcessLoop
    \/ ProcessVisit /\ result' = GOON_SUCCESS
    \/ ProcessDone

\* The client has created its handlers, each under one of the names, and
\* its events and the context.
InitUnregister ==
    /\ queue = goon_queue_create(MaxQueueSize)
    /\ InitEventsCreated
    /\ handlers = NULL
    /\ hnext = [h \in Handlers |-> NULL]
    /\ henabled = [h \in Handlers |-> TRUE]
    /\ call_count = [h \in Handlers |-> 0]
    /\ error_count = [h \in Handlers |-> 0]
    /\ hstatus = [h \in Handlers |-> "created"]
    /\ g_next_handler_id = MaxHandlers + 1
    /\ hname \in [Handlers -> HandlerNames]
    /\ regs = <<>>
    /\ InitContext
    /\ InitProcess
    /\ InitExtras

SpecUnregister == InitUnregister /\ [][NextUnregister]_vars

\* The positions of the handlers with the name in the list.
NamedAt(lst, name) == {n \in 1 .. Len(lst) : hname[lst[n]] = name}

FirstHandler == CHOOSE h \in Handlers : \A g \in Handlers : h <= g

NextTransitions ==
    \/ \E s \in States : goon_context_set_state(s)
    \/ goon_start
    \/ goon_pause
    \/ goon_resume
    \/ goon_stop
    \/ goon_context_register_handler(FirstHandler)
    \/ goon_context_unregister_handler(hname[FirstHandler])
    \/ \E e \in Events : goon_context_emit_event(e)
    \/ goon_context_clear_queue
    \/ goon_context_process_events
    \/ ProcessLoop
    \/ ProcessVisit /\ result' = GOON_SUCCESS
    \/ ProcessDone

\* A context fresh from goon_context_create, state Idle, whose lifecycle
\* calls are followed.
InitTransitions ==
    /\ queue = goon_queue_create(MaxQueueSize)
    /\ InitEventsCreated
    /\ InitHandlers
    /\ state = GOON_STATE_IDLE
    /\ prev_state = GOON_STATE_IDLE
    /\ handler_count = 0
    /\ event_count = 0
    /\ total_events_processed = 0
    /\ ctx_id = 1
    /\ g_next_context_id = 2
    /\ g_goon_ctx = NULL
    /\ InitProcess
    /\ InitExtras

SpecTransitions == InitTransitions /\ [][NextTransitions]_vars

\* C28: lifecycle transitions are unchecked.  In whichever of the seven
\* states the context is, start, pause, resume and set_state(s) return
\* Success and leave the state Running, Paused, Running and s, and stop
\* leaves it Terminated.  Emit, clear_queue, register and unregister leave
\* the state alone and return what the queue and the registry alone
\* decide; only process asks for Running.
C28_Unchecked ==
    [][/\ goon_start
            => state' = GOON_STATE_RUNNING /\ ret' = GOON_SUCCESS
       /\ goon_pause
            => state' = GOON_STATE_PAUSED /\ ret' = GOON_SUCCESS
       /\ goon_resume
            => state' = GOON_STATE_RUNNING /\ ret' = GOON_SUCCESS
       /\ \A s \in States :
            goon_context_set_state(s) => state' = s /\ ret' = GOON_SUCCESS
       /\ goon_stop => state' = GOON_STATE_TERMINATED
       /\ \A e \in Events :
            goon_context_emit_event(e)
               => /\ state' = state
                  /\ ret' = IF queue.size < queue.max_size
                            THEN GOON_SUCCESS ELSE GOON_ERROR_OVERFLOW
       /\ goon_context_clear_queue
            => state' = state /\ ret' = GOON_SUCCESS /\ queue'.size = 0
       /\ goon_context_register_handler(FirstHandler)
            => /\ state' = state
               /\ ret' = GOON_SUCCESS
               /\ handlers' = FirstHandler
       /\ goon_context_unregister_handler(hname[FirstHandler])
            => /\ state' = state
               /\ ret' = IF handlers = FirstHandler
                         THEN GOON_SUCCESS ELSE GOON_ERROR_NOT_FOUND
               /\ handlers' = NULL
       /\ goon_context_process_events
            => IF state = GOON_STATE_RUNNING
               THEN pc' = "loop" ELSE ret' = GOON_ERROR /\ pc' = "idle"]_vars

\* A context that was Terminated is Running again: start, resume or
\* set_state took it out of Terminated and returned Success.
C28_Witness ==
    /\ pc = "idle"
    /\ prev_state = GOON_STATE_TERMINATED
    /\ state = GOON_STATE_RUNNING
    /\ ret = GOON_SUCCESS

(* ------------------------------------------------------------------ *)
(* The worker (SpecWorker)                                            *)
(* ------------------------------------------------------------------ *)

\* The ticks a worker is followed for.
MaxIterations == 3

\* goon_worker_start: running = true; goon_start(ctx); GOON_SUCCESS.
goon_worker_start ==
    /\ pc = "idle"
    /\ running' = TRUE
    /\ SetState(GOON_STATE_RUNNING)
    /\ ret' = GOON_SUCCESS
    /\ UNCHANGED <<cachevars, poolvars, servars, gvars, iterations>>

\* goon_worker_stop: running = false; goon_stop(ctx); GOON_SUCCESS.
goon_worker_stop ==
    /\ pc = "idle"
    /\ running' = FALSE
    /\ StopContext
    /\ UNCHANGED <<cachevars, poolvars, servars, gvars, iterations>>

TickRefuses_never(r) == FALSE

\* if (!worker || !worker->running) return GOON_ERROR;
TickRefuses(r) == ~r

\* goon_worker_tick: refused on a worker that is not running; else one
\* goon_context_process_events(ctx), then iterations++ and its result.
\* A refused process call returns at once; a pass returns from ProcessLoop.
goon_worker_tick ==
    /\ pc = "idle"
    /\ iterations < MaxIterations
    /\ IF TickRefuses(running)
       THEN /\ ret' = GOON_ERROR
            /\ UNCHANGED <<qvars, cvars, hvars, pvars, iterations>>
       ELSE IF ProcessRefuses(state)
       THEN /\ ret' = GOON_ERROR
            /\ iterations' = iterations + 1
            /\ UNCHANGED <<qvars, cvars, hvars, pvars>>
       ELSE /\ StartPass("goon_worker_tick")
            /\ UNCHANGED <<state, prev_state, iterations>>
    /\ UNCHANGED <<cachevars, poolvars, servars, gvars, running>>

NextWorker ==
    \/ goon_worker_start
    \/ goon_worker_stop
    \/ goon_worker_tick
    \/ goon_pause
    \/ \E h \in Handlers : goon_context_register_handler(h)
    \/ \E e \in Events : goon_context_emit_event(e)
    \/ ProcessLoop
    \/ ProcessVisit /\ result' = GOON_SUCCESS
    \/ ProcessDone

SpecWorker == Init /\ [][NextWorker]_vars

\* C29: a tick on a worker that is running (started and not stopped) makes
\* one process call on the worker's context, returns what that call returns
\* (Error from a context that is not Running, else the number of events of
\* the pass) and adds 1 to iterations; a tick on a worker that is not
\* running returns Error, starts no pass and leaves iterations, the queue,
\* the handlers and the counters as they were.
C29_WorkerTick ==
    [][/\ (goon_worker_tick /\ ~running)
            => /\ ret' = GOON_ERROR
               /\ pc' = "idle"
               /\ iterations' = iterations
               /\ UNCHANGED <<qvars, cvars, hvars, pvars>>
       /\ (goon_worker_tick /\ running /\ state # GOON_STATE_RUNNING)
            => /\ ret' = GOON_ERROR
               /\ pc' = "idle"
               /\ iterations' = iterations + 1
               /\ UNCHANGED <<qvars, cvars, hvars, pvars>>
       /\ (goon_worker_tick /\ running /\ state = GOON_STATE_RUNNING)
            => /\ pc' = "loop"
               /\ caller' = "goon_worker_tick"
               /\ processed' = 0
               /\ iterations' = iterations
       /\ (pc # "idle" /\ pc' # "idle")
            => /\ caller' = caller
               /\ iterations' = iterations
               /\ running' = running
       /\ (pc # "idle" /\ pc' = "idle" /\ caller = "goon_worker_tick")
            => /\ ret' = processed
               /\ total_events_processed' = pass.total + processed
               /\ iterations' = iterations + 1
       /\ running' # running => goon_worker_start \/ goon_worker_stop]_vars

\* The worker ran two ticks, one of which processed an event, was stopped,
\* and was ticked again: Error, and iterations still 2.
C29_Witness ==
    /\ pc = "idle"
    /\ ~running
    /\ iterations = 2
    /\ ret = GOON_ERROR
    /\ state = GOON_STATE_TERMINATED
    /\ total_events_processed = 1

(* ------------------------------------------------------------------ *)
(* Event accounting (SpecAccounting)                                  *)
(* ------------------------------------------------------------------ *)

\* The loop of goon_context_emit_batch over the array es: null entries are
\* skipped, every other is emitted, and the emits that returned
\* GOON_SUCCESS are counted.  r carries the queue, its links, event_count,
\* the count of successes and the events and emit numbers of the successes.
RECURSIVE EmitAll(_, _)
EmitAll(r, es) ==
    IF es = <<>> THEN r
    ELSE IF es[1] = NULL THEN EmitAll(r, Tail(es))
    ELSE LET m == EmitEvent(r.q, r.next, r.count, es[1])
             ok == m.rc = GOON_SUCCESS
         IN  EmitAll([q |-> m.q, next |-> m.next, count |-> m.count,
                      success |-> IF ok THEN r.success + 1 ELSE r.success,
                      sent |-> IF ok THEN r.sent \cup {es[1]} ELSE r.sent,
                      no |-> IF ok THEN [r.no EXCEPT ![es[1]] = m.count]
                             ELSE r.no],
                     Tail(es))

\* The arrays the client passes to emit_batch: two entries, each null or
\* an event it owns, no event twice.
EmitBatchInputs ==
    {es \in [1 .. 2 -> {NULL} \cup Events] :
        /\ \A i \in 1 .. 2 : es[i] # NULL => Owned(es[i])
        /\ es[1] # NULL => es[1] # es[2]}

goon_context_emit_batch(es) ==
    /\ pc = "idle"
    /\ LET r == EmitAll([q |-> queue, next |-> enext, count |-> event_count,
                         success |-> 0, sent |-> {}, no |-> emit_no], es)
       IN  /\ queue' = r.q
           /\ enext' = r.next
           /\ event_count' = r.count
           /\ emit_no' = r.no
           /\ estatus' = [e \in Events |->
                            IF e \in r.sent THEN "queued"
                            ELSE IF \E i \in 1 .. 2 : es[i] = e
                            THEN "rejected" ELSE estatus[e]]
           /\ ret' = r.success
    /\ UNCHANGED <<epriority, g_next_event_id, pushed, popped, state,
                   prev_state, handler_count, total_events_processed, hvars,
                   pvars, xvars>>

ResetCounter_head(cnt) ==
    [h \in Handlers |-> IF h = handlers THEN 0 ELSE cnt[h]]

\* The walk of goon_context_reset_statistics over the list, for one of the
\* counters: 0 for every handler of the list.
ResetCounter(cnt) ==
    [h \in Handlers |-> IF h \in Range(HandlerList) THEN 0 ELSE cnt[h]]

\* goon_context_reset_statistics: the counters of every handler of the
\* list and total_events_processed go back to 0; event_count stays.
goon_context_reset_statistics ==
    /\ pc = "idle"
    /\ call_count' = ResetCounter(call_count)
    /\ error_count' = ResetCounter(error_count)
    /\ total_events_processed' = 0
    /\ ret' = GOON_SUCCESS
    /\ UNCHANGED <<qvars, state, prev_state, handler_count, event_count,
                   handlers, hnext, henabled, hstatus, g_next_handler_id,
                   hname, regs, pvars, xvars>>

NextAccounting ==
    \/ \E h \in Handlers : goon_context_register_handler(h)
    \/ goon_start
    \/ goon_pause
    \/ goon_resume
    \/ goon_stop
    \/ \E e \in Events : goon_context_emit_event(e)
    \/ \E es \in EmitBatchInputs : goon_context_emit_batch(es)
    \/ goon_context_clear_queue
    \/ goon_context_reset_statistics
    \/ goon_context_process_events
    \/ ProcessLoop
    \/ ProcessVisit /\ result' = GOON_SUCCESS
    \/ ProcessDone

SpecAccounting == InitEmit /\ [][NextAccounting]_vars

\* The events an emit has handed to the context: each was emitted with
\* GOON_SUCCESS once, and no event is handed over twice.
Emitted == {e \in Events : estatus[e] \in {"queued", "dispatch", "destroyed"}}

\* C30: whatever emit, emit_batch, process, clear_queue, reset_statistics,
\* start, pause, resume and stop have done to a context,
\* total_events_processed + the queue's size <= event_count, and
\* event_count is the number of emits that returned Success.
C30_Accounting ==
    /\ total_events_processed + queue.size <= event_count
    /\ event_count = Cardinality(Emitted)

\* Three emits succeeded, the queue is empty again and one event counts as
\* processed: the other two were cleared, or counted before a reset.
C30_Witness ==
    /\ pc = "idle"
    /\ event_count = 3
    /\ queue.size = 0
    /\ total_events_processed = 1
    /\ state = GOON_STATE_TERMINATED

(* ------------------------------------------------------------------ *)
(* Passes in which no handler runs (checked under Spec)               *)
(* ------------------------------------------------------------------ *)

\* No handler of the list is enabled: the list is empty, or every handler
\* registered is disabled.
NoneEnabled == \A h \in Handlers : hstatus[h] = "registered" => ~henabled[h]

\* C32: a process pass on a Running context with no registered handler, or
\* with every handler disabled, invokes no handler and changes no
\* call_count, and when it returns every event that was queued has been
\* popped and destroyed, their number is returned and has been added to
\* total_events_processed.
C32_ConsumedUninvoked ==
    [][(NoneEnabled /\ pc # "idle")
       => /\ call_count' = call_count
          /\ log' = <<>>
          /\ (pc' = "idle" /\ caller = "process_events")
               => /\ ret' = pass.n
                  /\ total_events_processed' = pass.total + pass.n
                  /\ queue'.size = 0
                  /\ \A e \in Events :
                        estatus'[e] \notin {"queued", "dispatch"}]_vars

\* Both handlers are registered and disabled, and process_events has just
\* returned 2: both events are destroyed and no handler was ever called.
C32_Witness ==
    /\ pc = "idle"
    /\ state = GOON_STATE_RUNNING
    /\ ret = 2
    /\ total_events_processed = 2
    /\ handler_count = 2
    /\ NoneEnabled
    /\ \A h \in Handlers : call_count[h] = 0
    /\ \A e \in 1 .. MaxCtxEvents : estatus[e] = "destroyed"

(* ------------------------------------------------------------------ *)
(* The frame of clear_queue (checked under SpecTransitions)           *)
(* ------------------------------------------------------------------ *)

\* C33: clear_queue, in whichever state the context is, leaves the queue
\* empty and every event that was queued destroyed, invokes no handler,
\* and leaves total_events_processed, event_count, every handler's
\* call_count and error_count, the handler list and the state as they were.
C33_ClearFrame ==
    [][goon_context_clear_queue
       => /\ queue'.size = 0
          /\ queue'.head = NULL
          /\ queue'.tail = NULL
          /\ \A e \in Events :
                estatus'[e] = IF e \in Range(QueueContents)
                              THEN "destroyed" ELSE estatus[e]
          /\ pc' = "idle"
          /\ log' = log
          /\ ret' = GOON_SUCCESS
          /\ UNCHANGED <<total_events_processed, event_count, call_count,
                         error_count, handlers, hnext, handler_count,
                         henabled, regs, state>>]_vars

\* The first event was processed by the registered handler; the second was
\* emitted and then cleared from the paused context: it is destroyed, and
\* the counters are those of the one pass.
C33_Witness ==
    /\ pc = "idle"
    /\ state = GOON_STATE_PAUSED
    /\ ret = GOON_SUCCESS
    /\ queue.size = 0
    /\ event_count = 2
    /\ total_events_processed = 1
    /\ handlers = FirstHandler
    /\ call_count[FirstHandler] = 1
    /\ \A e \in 1 .. 2 : estatus[e] = "destroyed"

(* ------------------------------------------------------------------ *)
(* The frame of reset_statistics (SpecStatistics)                     *)
(* ------------------------------------------------------------------ *)

NextStatistics ==
    \/ \E h \in Handlers : goon_context_register_handler(h)
    \/ \E h \in Handlers : goon_handler_disable(h)
    \/ goon_start
    \/ \E e \in Events : goon_context_emit_event(e)
    \/ goon_context_reset_statistics
    \/ goon_context_process_events
    \/ ProcessLoop
    \/ ProcessVisit
    \/ ProcessDone

SpecStatistics == Init /\ [][NextStatistics]_vars

\* C34: reset_statistics sets call_count and error_count of every
\* registered handler and total_events_processed to 0, and leaves the
\* queue and its events, event_count, the handler list with its order and
\* the enabled flags, and the state as they were.
C34_ResetFrame ==
    [][goon_context_reset_statistics
       => /\ \A h \in Handlers :
                hstatus[h] = "registered"
                   => call_count'[h] = 0 /\ error_count'[h] = 0
          /\ total_events_processed' = 0
          /\ ret' = GOON_SUCCESS
          /\ UNCHANGED <<queue, enext, estatus, event_count, handlers, hnext,
                         handler_count, regs, henabled, state>>]_vars

\* The counters of a reset: both handlers are registered, the second
\* disabled; an event has been processed and one is queued, and every
\* counter is 0 while event_count is 2.
C34_Witness ==
    /\ pc = "idle"
    /\ ret = GOON_SUCCESS
    /\ regs = <<1, 2>>
    /\ henabled[1]
    /\ ~henabled[2]
    /\ estatus[1] = "destroyed"
    /\ estatus[2] = "queued"
    /\ event_count = 2
    /\ total_events_processed = 0
    /\ \A h \in Handlers : call_count[h] = 0 /\ error_count[h] = 0

====
